---------------------------- MODULE Spec2Model ----------------------------
(***************************************************************************)
(* A model of the eclipse simulator: the astronomy engine of               *)
(* simulation.js (deriveSimulationState, deriveModel, computeAstronomy,    *)
(* findNextLocalEclipse, buildGroundTrack and the vector kernel) and the   *)
(* parts of App.jsx that drive it.                                         *)
(*                                                                         *)
(* Numbers.  The code computes in IEEE doubles; the model computes in     *)
(* fixed point on 32-bit integers:                                         *)
(*   angles            millidegrees (mdeg), 360000 to the circle           *)
(*   simulated time    millihours (mh), 1000 to the hour                   *)
(*   sines, cosines,   millionths ("micro"), 1000000 for 1.0               *)
(*   unit vectors,                                                         *)
(*   depth                                                                 *)
(*   lengths           metres for the Moon and for points of the Earth,    *)
(*                     kilometres for the Sun                              *)
(* Every operator keeps the name and the branch structure of the function  *)
(* it models; where a formula of the code cannot be evaluated in 32 bits   *)
(* (a square of a lunar distance) the comment at the operator says which   *)
(* algebraically equal form is evaluated instead.                          *)
(***************************************************************************)
EXTENDS Integers, Sequences, FiniteSets, TLC

-----------------------------------------------------------------------------
(* Fixed-point kernel (the arithmetic of doubles, at the model's scale).   *)

\* 1.0 in millionths.
Micro == 1000 * 1000

\* The value of a function of one point: With([a \in {e} |-> body]) is body
\* with a standing for the value of e, which is computed once ("const a = e").
With(f) == f[CHOOSE v \in DOMAIN f : TRUE]

Abs(a) == IF a < 0 THEN -a ELSE a

Sign(a) == IF a < 0 THEN -1 ELSE 1

Min(a, b) == IF a < b THEN a ELSE b

Max(a, b) == IF a > b THEN a ELSE b

\* Division rounding to nearest, halves away from zero (sign-symmetric, as
\* the division of doubles is).
RoundDiv(a, b) ==
  LET q == (2 * Abs(a) + Abs(b)) \div (2 * Abs(b))
  IN  Sign(a) * Sign(b) * q

\* a * b / 1000000 rounded to nearest, for |a| < 2*10^9 and |b| <= 2*10^6,
\* by limbs of 1000 so that no partial product leaves 32 bits.
MulNat(a, b) ==
  LET a1 == a \div 1000
      a0 == a % 1000
      b1 == b \div 1000
      b0 == b % 1000
      lo == (a0 * b0 + 500000) \div 1000
  IN  a1 * b1 + ((a1 * b0 + a0 * b1 + lo) \div 1000)

Mul(a, b) == Sign(a) * Sign(b) * MulNat(Abs(a), Abs(b))

\* a * 1000000 / b rounded to nearest, for 0 <= a and 0 < b < 2*10^8: long
\* division, six decimal digits after the point.
DivNat(a, b) ==
  LET r0 == a % b
      r1 == (10 * r0) % b
      r2 == (10 * r1) % b
      r3 == (10 * r2) % b
      r4 == (10 * r3) % b
      r5 == (10 * r4) % b
      r6 == (10 * r5) % b
      q  == (a \div b) * Micro
            + ((10 * r0) \div b) * 100000 + ((10 * r1) \div b) * 10000
            + ((10 * r2) \div b) * 1000 + ((10 * r3) \div b) * 100
            + ((10 * r4) \div b) * 10 + ((10 * r5) \div b)
  IN  IF 2 * r6 >= b THEN q + 1 ELSE q

\* a / b as a micro fraction, for |a| < 2000 |b|; a divisor beyond the reach
\* of DivNat is brought into it with the dividend (the quotient moves by
\* less than 10^-7 of itself).
Div(a, b) ==
  LET k == IF Abs(b) >= 200 * Micro THEN 16 ELSE 1
  IN  Sign(a) * Sign(b) * DivNat(Abs(a) \div k, Abs(b) \div k)

\* a * n / d rounded to nearest, for |n| * |d| within 32 bits.
MulDiv(a, n, d) ==
  LET q == Abs(a) \div Abs(d)
      r == Abs(a) % Abs(d)
  IN  Sign(a) * Sign(n) * Sign(d) * (q * Abs(n) + RoundDiv(r * Abs(n), Abs(d)))

\* One more decimal digit of a square root: from floor(sqrt(N)) = root with
\* remainder rem = N - root^2 to the root and remainder of 100 * N + pair.
SqrtExt(rr, pair) ==
  With([root \in {rr[1]}, r \in {rr[2] * 100 + pair} |->
  With([d \in {CHOOSE x \in 0..9 :
                 /\ (20 * root + x) * x <= r
                 /\ (x = 9 \/ (20 * root + x + 1) * (x + 1) > r)} |->
    <<10 * root + d, r - (20 * root + d) * d>>])])

\* Math.sqrt on integers below 2^31: floor(sqrt(n)) and the remainder, two
\* decimal digits of n at a time.
IsqrtQR(n) ==
  LET p4 == n \div 100000000
      p3 == (n \div 1000000) % 100
      p2 == (n \div 10000) % 100
      p1 == (n \div 100) % 100
      p0 == n % 100
  IN  SqrtExt(SqrtExt(SqrtExt(SqrtExt(SqrtExt(<<0, 0>>, p4), p3), p2), p1), p0)

Isqrt(n) == IF n <= 0 THEN 0 ELSE IsqrtQR(n)[1]

\* floor(sqrt(n * 10^6)): Math.sqrt of a micro value, in micro; of a value in
\* km^2, in metres.
SqrtScaled6(n) ==
  IF n <= 0 THEN 0 ELSE SqrtExt(SqrtExt(SqrtExt(IsqrtQR(n), 0), 0), 0)[1]


-----------------------------------------------------------------------------
(* Math.sin, Math.cos, Math.asin, Math.acos, Math.atan2 on millidegrees.   *)

\* sin of 0..90 whole degrees, in micro.
SinTable ==
  << 0, 17452, 34899, 52336, 69756, 87156, 104528, 121869, 139173, 156434,
     173648, 190809, 207912, 224951, 241922, 258819, 275637, 292372,
     309017, 325568, 342020, 358368, 374607, 390731, 406737, 422618,
     438371, 453990, 469472, 484810, 500000, 515038, 529919, 544639,
     559193, 573576, 587785, 601815, 615661, 629320, 642788, 656059,
     669131, 681998, 694658, 707107, 719340, 731354, 743145, 754710,
     766044, 777146, 788011, 798636, 809017, 819152, 829038, 838671,
     848048, 857167, 866025, 874620, 882948, 891007, 898794, 906308,
     913545, 920505, 927184, 933580, 939693, 945519, 951057, 956305,
     961262, 965926, 970296, 974370, 978148, 981627, 984808, 987688,
     990268, 992546, 994522, 996195, 997564, 998630, 999391, 999848,
     1000000 >>

\* angle * DEG: millidegrees to micro-radians (pi / 180 = 0.0174532925).
ToRad(mdeg) == Mul(mdeg, 17453293)

\* angle * RAD: micro-radians to millidegrees.
ToDeg(urad) == Div(urad, 17453293)

\* sin of an angle of the first quadrant, 0..90000 mdeg: the table at the
\* whole degree and the addition formula for the rest (series in the
\* remainder, less than a degree).
SinQ1(a) ==
  With([dg \in {a \div 1000}, x \in {((a % 1000) * 174533 + 5000) \div 10000} |->
  With([x2 \in {MulNat(x, x)} |->
    IF x = 0 THEN SinTable[dg + 1]
    ELSE MulNat(SinTable[dg + 1], Micro - (x2 \div 2))
         + MulNat(SinTable[90 - dg + 1], x - (MulNat(x2, x) \div 6))])])

\* Math.sin(angle * DEG), any angle in mdeg.
Sin(a) ==
  LET m == a % 360000
  IN  IF m <= 90000 THEN SinQ1(m)
      ELSE IF m <= 180000 THEN SinQ1(180000 - m)
      ELSE IF m <= 270000 THEN -SinQ1(m - 180000)
      ELSE -SinQ1(360000 - m)

\* Math.cos(angle * DEG).
Cos(a) == Sin(a + 90000)

\* The whole degree below asin(x): bisection in the table.
RECURSIVE AsinDegIn(_, _, _)
AsinDegIn(x, lo, hi) ==
  IF hi - lo <= 1 THEN lo
  ELSE LET mid == (lo + hi) \div 2
       IN  IF SinTable[mid + 1] <= x THEN AsinDegIn(x, mid, hi)
           ELSE AsinDegIn(x, lo, mid)

\* Math.asin(x) * RAD for x in micro, 0 <= x <= 1.0, in mdeg: the whole
\* degree dg from the table, and the rest d from
\* sin(d) = x cos(dg) - sqrt(1 - x^2) sin(dg), d = sin(d) + sin(d)^3 / 6.
AsinNat(x) ==
  IF x >= Micro THEN 90000
  ELSE With([dg \in {AsinDegIn(x, 0, 90)}, c \in {SqrtScaled6(Micro - MulNat(x, x))} |->
       With([sd \in {MulNat(x, SinTable[90 - dg + 1]) - MulNat(c, SinTable[dg + 1])} |->
       With([d \in {sd + (MulNat(MulNat(Abs(sd), Abs(sd)), Abs(sd)) \div 6)} |->
         dg * 1000 + Max(0, Min(1000, (d * 1000 + 8726) \div 17453))])])])

Asin(x) == IF x < 0 THEN -AsinNat(-x) ELSE AsinNat(x)

\* Math.acos(x) * RAD.
Acos(x) == 90000 - Asin(x)

\* Math.atan2(y, x) * RAD in mdeg, in (-180000, 180000]; the direction is
\* normalised first and the better conditioned of asin and acos is used.
Atan2(y, x) ==
  IF x = 0 /\ y = 0 THEN 0
  ELSE With([s \in {Max(Abs(x), Abs(y))} |->
       With([ux \in {Div(x, s)}, uy \in {Div(y, s)} |->
       With([n \in {SqrtScaled6(Mul(ux, ux) + Mul(uy, uy))} |->
       With([c  \in {Max(-Micro, Min(Micro, Div(ux, n)))},
             sn \in {Max(-Micro, Min(Micro, Div(uy, n)))} |->
       With([a \in {IF Abs(sn) <= Abs(c)
                    THEN (IF c >= 0 THEN Asin(sn) ELSE 180000 - Asin(sn))
                    ELSE (IF sn >= 0 THEN Acos(c) ELSE -Acos(c))} |->
         IF a > 180000 THEN a - 360000 ELSE a])])])])])

-----------------------------------------------------------------------------
(* Constants of simulation.js.  Rates are in micro-degrees per hour, so    *)
(* that Mul(hours in mh, rate) is the angle in mdeg.                       *)

EARTH_RADIUS_KM == 6371

SUN_RADIUS_KM == 695700

\* 1737.4 km, in metres.
MOON_RADIUS_M == 1737400

MOON_PERIGEE_KM == 363300

MOON_APOGEE_KM == 405500

\* 149597870.7 km.
AU_KM == 149597871

\* 5.145 degrees, in mdeg.
LUNAR_INCLINATION_DEG == 5145

EARTH_ROT_DEG_PER_HOUR == 15041067

SUN_ECLIPTIC_DEG_PER_HOUR == Div(10000 * (360 \div 24), 3652422)

MOON_ECLIPTIC_DEG_PER_HOUR == RoundDiv(13176358, 24)

MOON_ANOMALY_DEG_PER_HOUR == 549000

NODE_REGRESSION_DEG_PER_HOUR == -RoundDiv(SUN_ECLIPTIC_DEG_PER_HOUR * 1000, 18613)

-----------------------------------------------------------------------------
(* Scalar helpers of simulation.js.                                        *)

\* The % of JavaScript: the remainder has the sign of the dividend.
JsRem(a, m) == IF a >= 0 THEN a % m ELSE -((-a) % m)

normalize180(angle) ==
  With([value \in {JsRem(angle, 360000)} |->
    IF value > 180000 THEN value - 360000
    ELSE IF value < -180000 THEN value + 360000
    ELSE value])

normalize360(angle) ==
  With([value \in {JsRem(angle, 360000)} |->
    IF value < 0 THEN value + 360000 ELSE value])

clamp(value, min, max) == Max(min, Min(max, value))

-----------------------------------------------------------------------------
(* Time scales and the low-order ephemeris.  A Date is held as millihours  *)
(* since the Unix epoch, a Julian day as millihours since J2000.0          *)
(* (JD 2451545.0), Julian centuries in micro.                              *)

\* date.getTime() / 86400000 + 2440587.5, less 2451545.0 days.
toJulianDate(date) == date - 10957 * 24000 - 12000

\* (julianDay - 2451545.0) / 36525.
julianCenturies(julianDay) == MulDiv(julianDay, 10, 8766)

\* theta = 280.46061837 + 360.98564736629 d + 0.000387933 t^2 - t^3/38710000,
\* reduced modulo 360: the whole days contribute 0.98564736629 degrees each
\* (360 per day drops out), the rest of the day 15.04106864 degrees an hour.
greenwichSiderealDeg(julianDay) ==
  With([t \in {julianCenturies(julianDay)} |->
  With([t2 \in {Mul(t, t)} |->
    normalize360(280461
                 + Mul(julianDay \div 24000, 985647366)
                 + Mul(julianDay % 24000, 15041069)
                 + RoundDiv(Mul(387933, t2), 1000000)
                 - RoundDiv(RoundDiv(Mul(t2, t), Micro), 38710))])])

\* 23.439291 - 0.0130042 t - 0.00000016 t^2 + 0.000000504 t^3: evaluated in
\* micro-degrees, returned in mdeg.
meanObliquityDeg(t) ==
  With([t2 \in {Mul(t, t)} |->
    RoundDiv(23439291 - Mul(13004, t) - RoundDiv(Mul(160, t2), 1000)
                      + RoundDiv(Mul(504, Mul(t2, t)), 1000), 1000)])

\* The Sun's mean anomaly and its distance in AU (micro); the longitude of
\* the series is used only by getRealParameters.
sunEclipticCoordinates(t) ==
  With([t2 \in {Mul(t, t)} |->
  With([meanAnomalyDeg \in {normalize360(357529 + Mul(35999050, t)
                                         - RoundDiv(Mul(154, t2), 1000)
                                         + RoundDiv(RoundDiv(Mul(t2, t), 1000), 24490))} |->
    [distanceAu |-> 1000140 - Mul(16710, Cos(meanAnomalyDeg))
                            - Mul(140, Cos(2 * meanAnomalyDeg)),
     meanAnomalyDeg |-> meanAnomalyDeg]])])

-----------------------------------------------------------------------------
(* The vector kernel.  A vector is a record [x, y, z]; unit vectors and    *)
(* matrix entries are in micro.                                            *)

Vec(x, y, z) == [x |-> x, y |-> y, z |-> z]

addVector(a, b) == Vec(a.x + b.x, a.y + b.y, a.z + b.z)

\* vector * scalar for a scalar in micro.
scaleVector(vector, scalar) ==
  Vec(Mul(vector.x, scalar), Mul(vector.y, scalar), Mul(vector.z, scalar))

\* scaleVector(vector, -1).
negateVector(vector) == Vec(-vector.x, -vector.y, -vector.z)

\* a . b for b a unit vector (micro): in the unit of a.
dotVector(a, b) == Mul(a.x, b.x) + Mul(a.y, b.y) + Mul(a.z, b.z)

\* The direction of a vector with its largest component scaled to 1.0, and
\* the length of that scaled vector (micro): Math.sqrt(dotVector(v, v)) is
\* evaluated as largest * sqrt(sum of the squared ratios), the squares of the
\* components themselves not fitting 32 bits.
scaledParts(vector) ==
  With([s \in {Max(Abs(vector.x), Max(Abs(vector.y), Abs(vector.z)))} |->
  With([u \in {IF s = 0 THEN Vec(0, 0, 0)
               ELSE Vec(Div(vector.x, s), Div(vector.y, s), Div(vector.z, s))} |->
    [s |-> s, u |-> u,
     n |-> SqrtScaled6(Mul(u.x, u.x) + Mul(u.y, u.y) + Mul(u.z, u.z))]])])

magnitudeVector(vector) ==
  With([p \in {scaledParts(vector)} |-> Mul(p.s, p.n)])

\* norm < 1e-12 is norm = 0 at the model's resolution.
normalizeVector(vector) ==
  With([p \in {scaledParts(vector)} |->
    IF p.s = 0 THEN Vec(Micro, 0, 0)
    ELSE Vec(Div(p.u.x, p.n), Div(p.u.y, p.n), Div(p.u.z, p.n))])

rotationMatrixX(angleDeg) ==
  With([c \in {Cos(angleDeg)}, s \in {Sin(angleDeg)} |->
    << <<Micro, 0, 0>>, <<0, c, -s>>, <<0, s, c>> >>])

rotationMatrixZ(angleDeg) ==
  With([c \in {Cos(angleDeg)}, s \in {Sin(angleDeg)} |->
    << <<c, -s, 0>>, <<s, c, 0>>, <<0, 0, Micro>> >>])

applyMatrix3(matrix, vector) ==
  Vec(Mul(matrix[1][1], vector.x) + Mul(matrix[1][2], vector.y) + Mul(matrix[1][3], vector.z),
      Mul(matrix[2][1], vector.x) + Mul(matrix[2][2], vector.y) + Mul(matrix[2][3], vector.z),
      Mul(matrix[3][1], vector.x) + Mul(matrix[3][2], vector.y) + Mul(matrix[3][3], vector.z))

sphericalToCartesian(distance, lonDeg, latDeg) ==
  With([cosLat \in {Cos(latDeg)} |->
    Vec(Mul(Mul(distance, cosLat), Cos(lonDeg)),
        Mul(Mul(distance, cosLat), Sin(lonDeg)),
        Mul(distance, Sin(latDeg)))])

vectorToLatLon(vector) ==
  With([norm \in {magnitudeVector(vector)} |->
    [latDeg |-> Asin(clamp(Div(vector.z, norm), -Micro, Micro)),
     lonDeg |-> normalize180(Atan2(vector.y, vector.x))]])

vectorToEarthLatLon(vector, gmstDeg) ==
  With([norm \in {magnitudeVector(vector)} |->
  With([dec \in {Asin(clamp(Div(vector.z, norm), -Micro, Micro))},
        ra  \in {normalize360(Atan2(vector.y, vector.x))} |->
    [latDeg |-> dec, lonDeg |-> normalize180(ra - gmstDeg)]])])

angularSeparationFromVectors(a, b) ==
  With([aNorm \in {normalizeVector(a)}, bNorm \in {normalizeVector(b)} |->
  With([cosSeparation \in {clamp(dotVector(aNorm, bNorm), -Micro, Micro)} |->
    Acos(cosSeparation)])])

\* The absent intersection (null).
NoIntersection == [none |-> TRUE]

\* The intersection farther from the origin, wherever the line meets the
\* sphere.
lineSphereFarIntersection(origin, direction, radiusKm) ==
  With([halfB \in {dotVector(origin, direction)}, r \in {radiusKm * 1000} |->
  With([p \in {addVector(origin, scaleVector(direction, -halfB))} |->
  With([pn \in {magnitudeVector(p)} |->
    IF r - pn < 0 THEN NoIntersection
    ELSE addVector(origin, scaleVector(direction,
                                       -halfB + SqrtScaled6(Mul(r - pn, r + pn))))])])])

\* origin in metres, direction a unit vector, radiusKm in km.  With
\* b = 2 origin.direction and c = origin.origin - r^2 the code's discriminant
\* b^2 - 4c is 4 (r^2 - |p|^2) for p = origin - (origin.direction) direction,
\* the point of the line nearest the centre; that form is evaluated, in km^2,
\* and its sign is that of r - |p|.
lineSphereIntersection(origin, direction, radiusKm) ==
  With([halfB \in {dotVector(origin, direction)}, r \in {radiusKm * 1000} |->
  With([p \in {addVector(origin, scaleVector(direction, -halfB))} |->
  With([pn \in {magnitudeVector(p)} |->
    IF r - pn < 0 THEN NoIntersection
    ELSE
      With([sqrtDisc \in {SqrtScaled6(Mul(r - pn, r + pn))} |->
      With([t1 \in {-halfB - sqrtDisc}, t2 \in {-halfB + sqrtDisc} |->
        IF t1 <= 0 /\ t2 <= 0 THEN NoIntersection
        ELSE addVector(origin, scaleVector(direction, IF t1 > 0 THEN t1 ELSE t2))])])])])])

shadowAxisOnEarth(sunVector, moonVector, gmstDeg) ==
  With([axisDirection \in {normalizeVector(negateVector(sunVector))} |->
  With([intersection \in {lineSphereIntersection(moonVector, axisDirection, EARTH_RADIUS_KM)},
        tClosest     \in {-dotVector(moonVector, axisDirection)} |->
  With([hitsEarth    \in {intersection # NoIntersection},
        closestPoint \in {addVector(moonVector, scaleVector(axisDirection, tClosest))} |->
  With([norm \in {magnitudeVector(closestPoint)} |->
  With([surfacePoint \in
          {IF hitsEarth THEN intersection
           ELSE IF norm = 0
                THEN scaleVector(normalizeVector(negateVector(moonVector)),
                                 EARTH_RADIUS_KM * 1000)
                ELSE scaleVector(closestPoint, Div(EARTH_RADIUS_KM * 1000, norm))} |->
  With([geo \in {vectorToEarthLatLon(surfacePoint, gmstDeg)} |->
    [hitsEarth |-> hitsEarth, latDeg |-> geo.latDeg, lonDeg |-> geo.lonDeg]])])])])])])

-----------------------------------------------------------------------------
(* The geometry engine.                                                    *)

\* The eclipse classes ('Нет солнечного затмения', 'Полное ...',
\* 'Кольцеобразное ...', 'Частное ...' in the code).
ClassNone == "no solar eclipse"

ClassTotal == "total solar eclipse"

ClassAnnular == "annular solar eclipse"

ClassPartial == "partial solar eclipse"

\* The classes with the larger disc taken for the smaller: annular under a
\* larger Moon, total under a smaller one.
classifyDiscsExchanged(bestSeparationDeg, sunRadiusDeg, moonRadiusDeg, depth, axisHitsEarth) ==
  IF depth <= 500 THEN ClassNone
  ELSE IF axisHitsEarth /\ bestSeparationDeg <= Abs(moonRadiusDeg - sunRadiusDeg)
       THEN (IF moonRadiusDeg >= sunRadiusDeg THEN ClassAnnular ELSE ClassTotal)
  ELSE IF bestSeparationDeg < sunRadiusDeg + moonRadiusDeg THEN ClassPartial
  ELSE ClassNone

\* The classes by the separation alone, discs that touch counted as partial.
classifyBySeparation(bestSeparationDeg, sunRadiusDeg, moonRadiusDeg, depth, axisHitsEarth) ==
  IF axisHitsEarth /\ bestSeparationDeg <= Abs(moonRadiusDeg - sunRadiusDeg)
  THEN (IF moonRadiusDeg >= sunRadiusDeg THEN ClassTotal ELSE ClassAnnular)
  ELSE IF bestSeparationDeg <= sunRadiusDeg + moonRadiusDeg THEN ClassPartial
  ELSE ClassNone

\* The classes as if the axis of the shadow always met the Earth.
classifyIgnoringAxis(bestSeparationDeg, sunRadiusDeg, moonRadiusDeg, depth, axisHitsEarth) ==
  IF depth <= 500 THEN ClassNone
  ELSE IF bestSeparationDeg <= Abs(moonRadiusDeg - sunRadiusDeg)
       THEN (IF moonRadiusDeg >= sunRadiusDeg THEN ClassTotal ELSE ClassAnnular)
  ELSE IF bestSeparationDeg < sunRadiusDeg + moonRadiusDeg THEN ClassPartial
  ELSE ClassNone

\* depth <= 0.0005 is depth <= 500 micro.
classifyEclipse(bestSeparationDeg, sunRadiusDeg, moonRadiusDeg, depth, axisHitsEarth) ==
  LET radiusDiff == Abs(moonRadiusDeg - sunRadiusDeg)
  IN  IF depth <= 500 THEN ClassNone
      ELSE IF axisHitsEarth /\ bestSeparationDeg <= radiusDiff
           THEN (IF moonRadiusDeg >= sunRadiusDeg THEN ClassTotal ELSE ClassAnnular)
      ELSE IF bestSeparationDeg < sunRadiusDeg + moonRadiusDeg THEN ClassPartial
      ELSE ClassNone

\* No overlap where one disc lies within the other, a half where the rims
\* cross.
overlapOfRims(sunRadiusDeg, moonRadiusDeg, separationDeg) ==
  IF separationDeg >= sunRadiusDeg + moonRadiusDeg THEN 0
  ELSE IF separationDeg <= Abs(sunRadiusDeg - moonRadiusDeg) THEN 0
  ELSE 500000

\* The fraction with the two discs exchanged where one lies within the other,
\* and a half where the rims cross.
overlapDiscsExchanged(sunRadiusDeg, moonRadiusDeg, separationDeg) ==
  IF separationDeg >= sunRadiusDeg + moonRadiusDeg THEN 0
  ELSE IF separationDeg <= Abs(sunRadiusDeg - moonRadiusDeg)
       THEN (IF sunRadiusDeg >= moonRadiusDeg THEN Micro
             ELSE clamp(Div(sunRadiusDeg * sunRadiusDeg, moonRadiusDeg * moonRadiusDeg),
                        0, Micro))
  ELSE 500000

\* Radii and separation in mdeg, the fraction in micro.  The two circular
\* segments are summed as twice the area in thousandths of mdeg^2.
overlapFraction(sunRadiusDeg, moonRadiusDeg, separationDeg) ==
  With([r1 \in {sunRadiusDeg}, r2 \in {moonRadiusDeg}, d \in {separationDeg} |->
    IF d >= r1 + r2 THEN 0
    ELSE IF d <= Abs(r1 - r2)
         THEN (IF r2 >= r1 THEN Micro ELSE clamp(Div(r2 * r2, r1 * r1), 0, Micro))
    ELSE
      With([r1Sq \in {r1 * r1}, r2Sq \in {r2 * r2} |->
      With([alphaDeg \in {2 * Acos(clamp(Div(d * d + r1Sq - r2Sq, 2 * d * r1), -Micro, Micro))},
            betaDeg  \in {2 * Acos(clamp(Div(d * d + r2Sq - r1Sq, 2 * d * r2), -Micro, Micro))} |->
      With([alpha \in {ToRad(alphaDeg)}, beta \in {ToRad(betaDeg)} |->
      With([area2 \in {MulDiv(alpha - Sin(alphaDeg), r1Sq, 1000)
                       + MulDiv(beta - Sin(betaDeg), r2Sq, 1000)},
            disc  \in {Mul(3141593, r1Sq)} |->
        clamp(Div(RoundDiv(area2, 4), 500 * disc), 0, Micro)])])])])])

solveFootprintRadiusDeg(parallaxDeg, targetOffsetDeg) ==
  IF parallaxDeg <= 0 \/ targetOffsetDeg <= 0 THEN 0
  ELSE With([numerator \in {Sin(targetOffsetDeg)}, denominator \in {Sin(parallaxDeg)} |->
         IF denominator <= 0 THEN 0
         ELSE With([ratio \in {Div(numerator, denominator)} |->
                IF ratio >= Micro THEN 89500
                ELSE Asin(clamp(ratio, -Micro, Micro))])])

\* The Sun's vectors are in km, the Moon's in metres.  The node vectors, the
\* orbit normal and the vectors seen from the Sun, which only the drawing
\* code reads, are not carried.
buildGeometryFrames(options) ==
  With([sunFromEarthEcliptic \in
          {sphericalToCartesian(options.sunDistanceKm, options.correctedSunLon, 0)},
        moonFromEarthEcliptic \in
          {sphericalToCartesian(options.moonDistanceKm * 1000, options.correctedMoonLon,
                                options.correctedMoonLat)},
        eclipticToEquatorialMatrix   \in {rotationMatrixX(options.epsilonDeg)},
        equatorialToEarthFixedMatrix \in {rotationMatrixZ(-options.gmstDeg)} |->
  With([sunFromEarthEquatorial \in
          {applyMatrix3(eclipticToEquatorialMatrix, sunFromEarthEcliptic)},
        moonFromEarthEquatorial \in
          {applyMatrix3(eclipticToEquatorialMatrix, moonFromEarthEcliptic)} |->
  With([sunFromEarthFixed \in
          {applyMatrix3(equatorialToEarthFixedMatrix, sunFromEarthEquatorial)},
        moonFromEarthFixed \in
          {applyMatrix3(equatorialToEarthFixedMatrix, moonFromEarthEquatorial)} |->
      [ecliptic   |-> [sunFromEarthKm |-> sunFromEarthEcliptic,
                       moonFromEarthKm |-> moonFromEarthEcliptic],
       equatorial |-> [sunFromEarthKm |-> sunFromEarthEquatorial,
                       moonFromEarthKm |-> moonFromEarthEquatorial],
       earthFixed |-> [sunFromEarthKm |-> sunFromEarthFixed,
                       moonFromEarthKm |-> moonFromEarthFixed]]])])])

\* A footprint radius that is reported although no eclipse is in progress.
footprintAlways(depth, radiusDeg) == radiusDeg

\* if (depth <= 0) { penumbraRadiusDeg = 0; coreRadiusDeg = 0; }
footprintIfEclipse(depth, radiusDeg) == IF depth <= 0 THEN 0 ELSE radiusDeg

\* The distance of the Moon without its limits.
moonDistanceKmFree(controls) ==
  MOON_PERIGEE_KM + Mul(controls.moonDistanceMode, MOON_APOGEE_KM - MOON_PERIGEE_KM)

\* const moonDistanceKm = clamp(MOON_PERIGEE_KM + controls.moonDistanceMode *
\* (MOON_APOGEE_KM - MOON_PERIGEE_KM), MOON_PERIGEE_KM, MOON_APOGEE_KM), in km.
moonDistanceKmOf(controls) ==
  clamp(MOON_PERIGEE_KM + Mul(controls.moonDistanceMode, MOON_APOGEE_KM - MOON_PERIGEE_KM),
        MOON_PERIGEE_KM, MOON_APOGEE_KM)

\* The two discs taken as if the axis of the shadow always met the Earth.
eclipseOfAxisMet(sunAngularRadiusDeg, moonAngularRadiusDeg, moonParallaxDeg, bestSeparationDeg, hitsEarth) ==
  With([depth \in {overlapFraction(sunAngularRadiusDeg, moonAngularRadiusDeg,
                                   bestSeparationDeg)} |->
      [depth |-> depth,
       umbraRadiusDeg |->
         footprintIfEclipse(depth,
           solveFootprintRadiusDeg(moonParallaxDeg,
                                   Abs(sunAngularRadiusDeg - moonAngularRadiusDeg))),
       penumbraRadiusDeg |->
         footprintIfEclipse(depth,
           solveFootprintRadiusDeg(moonParallaxDeg,
                                   sunAngularRadiusDeg + moonAngularRadiusDeg)),
       eclipseClass |-> classifyEclipse(bestSeparationDeg, sunAngularRadiusDeg,
                                        moonAngularRadiusDeg, depth, TRUE)]])

\* What computeAstronomy makes of the two discs: depth, the two footprints
\* (set to 0 if depth <= 0, the umbra also if the axis misses the Earth) and
\* the class.
eclipseOf(sunAngularRadiusDeg, moonAngularRadiusDeg, moonParallaxDeg, bestSeparationDeg, hitsEarth) ==
  With([depth \in {overlapFraction(sunAngularRadiusDeg, moonAngularRadiusDeg,
                                   bestSeparationDeg)} |->
  With([penumbraRadiusDeg \in
          {footprintIfEclipse(depth,
             solveFootprintRadiusDeg(moonParallaxDeg,
                                     sunAngularRadiusDeg + moonAngularRadiusDeg))},
        coreRadiusDeg \in
          {footprintIfEclipse(depth,
             solveFootprintRadiusDeg(moonParallaxDeg,
                                     Abs(sunAngularRadiusDeg - moonAngularRadiusDeg)))} |->
      [depth |-> depth,
       umbraRadiusDeg |-> IF hitsEarth THEN coreRadiusDeg ELSE 0,
       penumbraRadiusDeg |-> penumbraRadiusDeg,
       eclipseClass |-> classifyEclipse(bestSeparationDeg, sunAngularRadiusDeg,
                                        moonAngularRadiusDeg, depth, hitsEarth)]
  ])])

\* controls: a record with sunEclipticLon, ascendingNodeLon, moonEclipticLon,
\* moonAnomaly (mdeg) and moonDistanceMode (micro).
computeAstronomy(julianDay, controls, rotationOffsetDeg) ==
  With([t       \in {julianCenturies(julianDay)},
        gmstDeg \in {normalize360(greenwichSiderealDeg(julianDay) + rotationOffsetDeg)},
        correctedSunLon  \in {normalize360(controls.sunEclipticLon)},
        correctedNodeLon \in {normalize360(controls.ascendingNodeLon)},
        correctedMoonLon \in {normalize360(controls.moonEclipticLon)},
        moonDistanceKm \in {moonDistanceKmOf(controls)} |->
  With([epsilonDeg \in {meanObliquityDeg(t)},
        sun        \in {sunEclipticCoordinates(t)},
        correctedMoonLat \in
          {clamp(Mul(LUNAR_INCLINATION_DEG, Sin(normalize180(correctedMoonLon - correctedNodeLon))),
                 -12000, 12000)} |->
  With([sunDistanceKm \in {Mul(AU_KM, sun.distanceAu)} |->
  With([geometry \in
          {buildGeometryFrames(
             [correctedSunLon |-> correctedSunLon, correctedMoonLon |-> correctedMoonLon,
              correctedMoonLat |-> correctedMoonLat, correctedNodeLon |-> correctedNodeLon,
              moonDistanceKm |-> moonDistanceKm, sunDistanceKm |-> sunDistanceKm,
              epsilonDeg |-> epsilonDeg, gmstDeg |-> gmstDeg])},
        sunAngularRadiusDeg \in
          {Asin(clamp(Div(SUN_RADIUS_KM, sunDistanceKm), -Micro, Micro))},
        moonAngularRadiusDeg \in
          {Asin(clamp(Div(MOON_RADIUS_M \div 100, moonDistanceKm * 10), -Micro, Micro))},
        moonParallaxDeg \in
          {Asin(clamp(Div(EARTH_RADIUS_KM, moonDistanceKm), -Micro, Micro))} |->
  With([subSolarGeo \in {vectorToLatLon(geometry.earthFixed.sunFromEarthKm)},
        subLunarGeo \in {vectorToLatLon(geometry.earthFixed.moonFromEarthKm)},
        sunVector   \in {geometry.equatorial.sunFromEarthKm},
        moonVector  \in {geometry.equatorial.moonFromEarthKm} |->
  With([separationDeg \in {angularSeparationFromVectors(sunVector, moonVector)},
        shadowAxis    \in {shadowAxisOnEarth(sunVector, moonVector, gmstDeg)} |->
  With([bestSeparationDeg \in {Max(0, separationDeg - moonParallaxDeg)} |->
  With([shadow \in {eclipseOf(sunAngularRadiusDeg, moonAngularRadiusDeg,
                              moonParallaxDeg, bestSeparationDeg,
                              shadowAxis.hitsEarth)} |->
      [gmstDeg |-> gmstDeg,
       sunEclipticLon |-> correctedSunLon,
       moonEclipticLon |-> correctedMoonLon,
       moonNodePhase |-> normalize180(correctedMoonLon - correctedNodeLon),
       moonAnomaly |-> normalize360(controls.moonAnomaly),
       ascendingNodeLon |-> correctedNodeLon,
       descendingNodeLon |-> normalize360(correctedNodeLon + 180000),
       moonDistanceKm |-> moonDistanceKm,
       sunDistanceKm |-> sunDistanceKm,
       sunToNode |-> normalize180(correctedSunLon - correctedNodeLon),
       moonToSun |-> normalize180(correctedMoonLon - correctedSunLon),
       sunAngularRadiusDeg |-> sunAngularRadiusDeg,
       moonAngularRadiusDeg |-> moonAngularRadiusDeg,
       moonEclipticLat |-> correctedMoonLat,
       separationDeg |-> separationDeg,
       bestSeparationDeg |-> bestSeparationDeg,
       depth |-> shadow.depth,
       subSolarLat |-> subSolarGeo.latDeg,
       subSolarLon |-> subSolarGeo.lonDeg,
       subLunarLat |-> subLunarGeo.latDeg,
       subLunarLon |-> subLunarGeo.lonDeg,
       centralLat |-> shadowAxis.latDeg,
       centralLon |-> shadowAxis.lonDeg,
       axisHitsEarth |-> shadowAxis.hitsEarth,
       umbraRadiusDeg |-> shadow.umbraRadiusDeg,
       penumbraRadiusDeg |-> shadow.penumbraRadiusDeg,
       eclipseClass |-> shadow.eclipseClass]
  ])])])])])])])])

\* The square of a micro value, in nano (10^9 for 1.0).
SqNano(s) ==
  LET a  == Abs(s)
      a1 == a \div 1000
      a0 == a % 1000
  IN  a1 * a1 * 1000 + 2 * a1 * a0 + ((a0 * a0) \div 1000)

\* Math.sqrt of a nano value, in micro: floor(sqrt(1000 a)).
SqrtNano(a) ==
  IF a <= 0 THEN 0
  ELSE SqrtExt(SqrtExt(IsqrtQR(a \div 10), (a % 10) * 10), 0)[1]

\* Math.sin(x / 2) for x in mdeg.
SinHalf(x) == (Sin(x \div 2) + Sin((x + 1) \div 2)) \div 2

\* The haversine distance, in metres.
greatCircleDistanceKm(latA, lonA, latB, lonB) ==
  With([sinHalfLat \in {SinHalf(latB - latA)}, sinHalfLon \in {SinHalf(lonB - lonA)} |->
  With([a \in {SqNano(sinHalfLat) + Mul(SqNano(sinHalfLon), Mul(Cos(latA), Cos(latB)))} |->
  With([c \in {2 * Atan2(SqrtNano(a), SqrtNano(1000 * Micro - a))} |->
    Mul(EARTH_RADIUS_KM * 1000, ToRad(c))])])])

-----------------------------------------------------------------------------
(* The state of the program and of the callers of the library.             *)

VARIABLES
  params,           \* params of App: the orbital parameters a call is given
  startDate,        \* startDate of App, in mh since the Unix epoch
  simHours,         \* simHours of App, in mh
  isPlaying,        \* isPlaying of App
  alertShown,       \* whether alert('...') has been raised
  now,              \* the wall clock that new Date() reads, in mh
  liveState,        \* liveState of App: deriveSimulationState(params, simHours, startDate)
  model,            \* model of App: deriveModel(liveState)
  backState,        \* the state derived from liveState by a further call
  backModel,        \* deriveModel(backState)
  directModel,      \* deriveModel(params), the parameters passed as they are
  calls,            \* the calls of deriveSimulationState so far, with their results
  currentSimHours,  \* the argument of the running findNextLocalEclipse
  search,           \* its locals t, i, j, found, minDistance, bestT and where it stands
  nextT,            \* what it returned
  scanned,          \* the samples of its scan loops so far, in order
  examined,         \* the refined new moons it has examined so far, in order
  heap,             \* the objects of the JavaScript heap, by reference
  paramsRef,        \* the reference App holds as params
  stateRef,         \* the reference App holds as liveState
  modelRef,         \* the reference App holds as model
  renders,          \* the number of renders so far
  searches,         \* the number of searches so far
  speed,            \* speed of App
  perfNow,          \* what performance.now() reads, in ms
  prev,             \* prev of the animation effect, in ms
  args,             \* the arguments of a call of a function of the geometry
  returned,         \* what the call returned
  LAND_STORE,       \* LAND_STORE of the views: status and features
  request,          \* the promise of fetch(LAND_DATA_URL)
  fetches,          \* the calls of fetch so far
  events,           \* the 'land-data-ready' events dispatched so far
  landDataVersion,  \* landDataVersion of App
  drawDue,          \* whether the drawing effect is due to run again
  draws,            \* the runs of the drawing effect so far
  activeViewId,     \* activeViewId of App
  returns           \* what the calls of getLandFeatures returned, in order

vars == <<params, startDate, simHours, isPlaying, alertShown, now, liveState,
          model, backState, backModel, directModel, calls, currentSimHours,
          search, nextT, scanned, examined, heap, paramsRef, stateRef,
          modelRef, renders, searches, speed, perfNow, prev, args,
          returned, LAND_STORE, request, fetches, events, landDataVersion,
          drawDue, draws, activeViewId, returns>>

\* A variable that holds nothing yet (undefined).
None == [none |-> TRUE]

-----------------------------------------------------------------------------
(* The simulation state and the model derived from it.                     *)

\* A product that runs one hour ahead of the time of day.
hoursTimesRateAhead(hours, rate) == Mul(JsRem(hours, 24000) + 1000, rate)

\* simHours * rate, in mdeg, reduced by whole turns: the whole days of
\* simHours contribute (24 * rate) modulo 360 degrees each, the rest of the
\* day rate per hour.  The callers wrap the sum with normalize360 or
\* normalize180, so the dropped turns do not show.
hoursTimesRate(hours, rate) ==
  LET a      == Abs(hours)
      days   == a \div 24000
      rest   == a % 24000
      perDay == JsRem(24 * rate, 360 * Micro)
  IN  Sign(hours) * (MulDiv(perDay, days, 1000) + Mul(rest, rate))

\* A date taken from the wall clock instead of the argument.
dateOfClock(start, hours) == now + hours

\* new Date(startDate.getTime() + simHours * 3600000).  Every caller passes
\* startDate, so the default "startDate = new Date()" is never taken.
dateOf(start, hours) == start + hours

\* base: the parameters (or a state, whose derived fields are overwritten);
\* hours in mh; start in mh since the Unix epoch.
deriveSimulationState(base, hours, start) ==
  With([date \in {dateOf(start, hours)},
        ascendingNodeLon \in
          {normalize360(base.ascendingNodeLon
                        + hoursTimesRate(hours, NODE_REGRESSION_DEG_PER_HOUR))},
        moonNodePhase \in
          {normalize180(base.moonNodePhase
                        + hoursTimesRate(hours, MOON_ECLIPTIC_DEG_PER_HOUR
                                                - NODE_REGRESSION_DEG_PER_HOUR))} |->
  With([julianDay \in {toJulianDate(date)} |->
      [simHours |-> hours,
       date |-> date,
       julianDay |-> julianDay,
       gmst |-> greenwichSiderealDeg(julianDay),
       earthRotation |-> normalize360(base.earthRotation
                                      + hoursTimesRate(hours, EARTH_ROT_DEG_PER_HOUR)),
       sunEclipticLon |-> normalize360(base.sunEclipticLon
                                       + hoursTimesRate(hours, SUN_ECLIPTIC_DEG_PER_HOUR)),
       ascendingNodeLon |-> ascendingNodeLon,
       descendingNodeLon |-> normalize360(ascendingNodeLon + 180000),
       moonNodePhase |-> moonNodePhase,
       moonEclipticLon |-> normalize360(ascendingNodeLon + moonNodePhase),
       moonAnomaly |-> normalize360(base.moonAnomaly
                                    + hoursTimesRate(hours, MOON_ANOMALY_DEG_PER_HOUR))]
      @@ base])])

\* The sample hours -6, -5.5, ..., 6 of the ground track, in mh.
TrackHours == [k \in 1..25 |-> (k - 13) * 500]

\* The controls of the reference instant at every sample.
sampleStill(controls, hour) == controls

\* const sampleControls = { ...controls, sunEclipticLon: ..., ... }.
sampleSpread(controls, hour) ==
  [sunEclipticLon |-> normalize360(controls.sunEclipticLon
                                   + Mul(hour, SUN_ECLIPTIC_DEG_PER_HOUR)),
   ascendingNodeLon |-> normalize360(controls.ascendingNodeLon
                                     + Mul(hour, NODE_REGRESSION_DEG_PER_HOUR)),
   moonNodePhase |-> normalize180(controls.moonNodePhase
                                  + Mul(hour, MOON_ECLIPTIC_DEG_PER_HOUR
                                              - NODE_REGRESSION_DEG_PER_HOUR)),
   moonAnomaly |-> normalize360(controls.moonAnomaly
                                + Mul(hour, MOON_ANOMALY_DEG_PER_HOUR))]
  @@ controls

\* The value of sampleControls.moonEclipticLon = normalize360(...).
sampleMoonEclipticLon(sampleControls) ==
  normalize360(sampleControls.ascendingNodeLon + sampleControls.moonNodePhase)

\* The controls of one sample, after the assignment.
sampleControlsAt(controls, hour) ==
  With([sampleControls \in {sampleSpread(controls, hour)} |->
    [moonEclipticLon |-> sampleMoonEclipticLon(sampleControls)] @@ sampleControls])

trackSample(julianDay, controls, rotationOffsetDeg, hour) ==
  computeAstronomy(julianDay + hour, sampleControlsAt(controls, hour), rotationOffsetDeg)

\* depth > 0.001 is depth > 1000 micro.
RECURSIVE trackFrom(_, _, _, _)
trackFrom(julianDay, controls, rotationOffsetDeg, n) ==
  IF n > Len(TrackHours) THEN <<>>
  ELSE With([sample \in {trackSample(julianDay, controls, rotationOffsetDeg, TrackHours[n])} |->
         IF sample.depth > 1000
         THEN <<[lon |-> sample.centralLon, lat |-> sample.centralLat]>>
              \o trackFrom(julianDay, controls, rotationOffsetDeg, n + 1)
         ELSE trackFrom(julianDay, controls, rotationOffsetDeg, n + 1)])

\* The hours of the samples that buildGroundTrack pushes a point for, in the
\* order of its loop.
RECURSIVE trackHoursFrom(_, _, _, _)
trackHoursFrom(julianDay, controls, rotationOffsetDeg, n) ==
  IF n > Len(TrackHours) THEN <<>>
  ELSE With([sample \in {trackSample(julianDay, controls, rotationOffsetDeg, TrackHours[n])} |->
         IF sample.depth > 1000
         THEN <<TrackHours[n]>> \o trackHoursFrom(julianDay, controls, rotationOffsetDeg, n + 1)
         ELSE trackHoursFrom(julianDay, controls, rotationOffsetDeg, n + 1)])

buildGroundTrack(julianDay, controls, rotationOffsetDeg) ==
  trackFrom(julianDay, controls, rotationOffsetDeg, 1)

\* The fields of the model that are NaN when deriveModel is given the bare
\* parameters: state.julianDay, state.gmst and controls.moonEclipticLon are
\* undefined there, and every value computed from one of them is NaN.
NaNFields ==
  {"gmstDeg", "moonEclipticLon", "moonNodePhase", "sunDistanceKm", "moonToSun",
   "sunAngularRadiusDeg", "moonEclipticLat", "separationDeg", "bestSeparationDeg",
   "depth", "subSolarLat", "subSolarLon", "subLunarLat", "subLunarLon",
   "centralLat", "centralLon", "penumbraRadiusDeg", "observerToShadowKm",
   "shadowRadiusDeg"}

\* deriveModel on an object without julianDay, gmst and moonEclipticLon.  What
\* does not pass through them is computed as ever; lineSphereIntersection
\* keeps no root (NaN > 0 is false) and returns null, so the axis misses the
\* Earth and umbraRadiusDeg is 0; no comparison with NaN holds in
\* classifyEclipse, which falls through to its last return; no sample of the
\* ground track has depth > 0.001.  The field nan names the NaN fields.
deriveModelOfParameters(controls) ==
  LET correctedSunLon  == normalize360(controls.sunEclipticLon)
      correctedNodeLon == normalize360(controls.ascendingNodeLon)
      moonDistanceKm ==
        clamp(MOON_PERIGEE_KM + Mul(controls.moonDistanceMode, MOON_APOGEE_KM - MOON_PERIGEE_KM),
              MOON_PERIGEE_KM, MOON_APOGEE_KM)
  IN  [nan |-> NaNFields,
       track |-> <<>>,
       sunEclipticLon |-> correctedSunLon,
       moonAnomaly |-> normalize360(controls.moonAnomaly),
       ascendingNodeLon |-> correctedNodeLon,
       descendingNodeLon |-> normalize360(correctedNodeLon + 180000),
       moonDistanceKm |-> moonDistanceKm,
       sunToNode |-> normalize180(correctedSunLon - correctedNodeLon),
       moonAngularRadiusDeg |-> Asin(clamp(Div(MOON_RADIUS_M \div 100, moonDistanceKm * 10),
                                           -Micro, Micro)),
       axisHitsEarth |-> FALSE,
       umbraRadiusDeg |-> 0,
       eclipseClass |-> ClassNone] @@ controls

\* { ...state, ...astro, track, observerToShadowKm, shadowRadiusDeg }: the
\* fields of astro override those of state.
deriveModel(st) ==
  IF "julianDay" \in DOMAIN st
  THEN With([rotationOffsetDeg \in {normalize180(st.earthRotation - st.gmst)} |->
       With([astro \in {computeAstronomy(st.julianDay, st, rotationOffsetDeg)},
             track \in {buildGroundTrack(st.julianDay, st, rotationOffsetDeg)} |->
         [nan |-> {},
          track |-> track,
          observerToShadowKm |-> greatCircleDistanceKm(st.observerLat, st.observerLon,
                                                       astro.centralLat, astro.centralLon),
          shadowRadiusDeg |-> astro.penumbraRadiusDeg] @@ astro @@ st])])
  ELSE deriveModelOfParameters(st)

\* Field-by-field equality of two models; NaN equals nothing, itself included.
ModelsEqual(a, b) == a.nan = {} /\ b.nan = {} /\ a = b

-----------------------------------------------------------------------------
(* The search for the next eclipse visible at the observer.                *)

\* null, and a number, as a value a variable of the program can hold.
JsNull == [isNull |-> TRUE]

JsNumber(x) == [isNull |-> FALSE, value |-> x]

\* The number of outer iterations the search is given (10000 in the code,
\* "up to ~800 years"; the model looks this many new moons ahead).
SearchHorizon == 3

\* The scan offsets hour = -6, -5.9, ..., 6 in mh: 121 of them.
ScanSamples == 121

scanHour(k) == (k - 61) * 100

\* Infinity, as the initial minDistance: beyond every distance on the globe.
Infinity == 2000 * Micro

\* The rate of the Moon alone, the Sun taken to stand still.
siderealRate == MOON_ECLIPTIC_DEG_PER_HOUR

\* MOON_ECLIPTIC_DEG_PER_HOUR - SUN_ECLIPTIC_DEG_PER_HOUR.
synodicRate == MOON_ECLIPTIC_DEG_PER_HOUR - SUN_ECLIPTIC_DEG_PER_HOUR

\* deriveSimulationState, rotationOffsetDeg and computeAstronomy at t, as the
\* search evaluates them each time.
astronomyAt(base, t, start) ==
  With([st \in {deriveSimulationState(base, t, start)} |->
    computeAstronomy(st.julianDay, st, normalize180(st.earthRotation - st.gmst))])

\* let t = current + 24.
searchStart(current) == current + 24000

\* The new moon nearest to t, behind it or ahead.
estimateNearestNewMoon(base, t, start) ==
  t - Div(astronomyAt(base, t, start).moonToSun, synodicRate)

\* t += hoursToNewMoon.
estimateNewMoon(base, t, start) ==
  With([moonToSun \in {astronomyAt(base, t, start).moonToSun} |->
  With([phase \in {IF moonToSun < 0 THEN moonToSun + 360000 ELSE moonToSun} |->
    t + Div(360000 - phase, synodicRate)])])

\* One step of "Refine the new moon time".
refineNewMoon(base, t, start) ==
  t - Div(astronomyAt(base, t, start).moonToSun, synodicRate)

\* The step taken the wrong way: back to the day before the new moon.
stepBackADay(t) == t - 24000

\* t += 24: "Step forward a bit to avoid finding the same new moon".
stepPastNewMoon(t) == t + 24000

\* One pass of the scan loop up to the visibility test; the distances in
\* metres.
scanSample(base, t, start, hour) ==
  With([scanT \in {t + hour} |->
  With([scanState \in {deriveSimulationState(base, scanT, start)} |->
  With([scanRotationOffsetDeg \in {normalize180(scanState.earthRotation - scanState.gmst)} |->
  With([scanAstro \in {computeAstronomy(scanState.julianDay, scanState,
                                        scanRotationOffsetDeg)} |->
  With([observerToShadowKm \in
          {greatCircleDistanceKm(scanState.observerLat, scanState.observerLon,
                                 scanAstro.centralLat, scanAstro.centralLon)},
        penumbraRadiusKm \in
          {Mul(EARTH_RADIUS_KM * 1000, ToRad(Max(0, scanAstro.penumbraRadiusDeg)))} |->
      [scanT |-> scanT,
       observerToShadowKm |-> observerToShadowKm,
       penumbraRadiusKm |-> penumbraRadiusKm,
       penumbraRadiusDeg |-> scanAstro.penumbraRadiusDeg,
       visible |-> observerToShadowKm <= penumbraRadiusKm + 25000]])])])])])

\* The scan pass that takes every sample, visible or not.
scanStepAny(acc, sample) ==
  IF sample.observerToShadowKm < acc.minDistance
  THEN [found |-> TRUE, minDistance |-> sample.observerToShadowKm, bestT |-> sample.scanT]
  ELSE [acc EXCEPT !.found = TRUE]

\* The scan pass that keeps the latest visible sample, not the nearest.
scanStepLast(acc, sample) ==
  IF sample.visible
  THEN [found |-> TRUE, minDistance |-> sample.observerToShadowKm, bestT |-> sample.scanT]
  ELSE acc

\* The rest of the pass: found, minDistance and bestT after the sample.
scanStep(acc, sample) ==
  IF sample.visible
  THEN IF sample.observerToShadowKm < acc.minDistance
       THEN [found |-> TRUE, minDistance |-> sample.observerToShadowKm, bestT |-> sample.scanT]
       ELSE [acc EXCEPT !.found = TRUE]
  ELSE acc

\* let minDistance = Infinity; let bestT = t; let found = false.
scanInit(t) == [found |-> FALSE, minDistance |-> Infinity, bestT |-> t]

\* The passes lo..hi of the scan loop, in order.
RECURSIVE scanRange(_, _, _, _, _, _)
scanRange(base, t, start, lo, hi, acc) ==
  IF lo = hi THEN scanStep(acc, scanSample(base, t, start, scanHour(lo)))
  ELSE LET mid == (lo + hi) \div 2
       IN  scanRange(base, t, start, mid + 1, hi,
                     scanRange(base, t, start, lo, mid, acc))

\* The test that sends the refinement round a fourth time.
refiningOnceMore(j) == j <= 3

\* for (let j = 0; j < 3; j++).
refining(j) == j < 3

\* for (let i = 0; i < 10000; i++), over the horizon of the model.
outerGoesOn(i) == i < SearchHorizon

\* for (let hour = -6; hour <= 6; hour += 0.1), k the number of the pass.
scanning(k) == k <= ScanSamples

\* if (astro.depth > 0).
isGlobalEclipse(depth) == depth > 0

\* The refinement loop from step j on.
RECURSIVE refineFrom(_, _, _, _)
refineFrom(base, t, start, j) ==
  IF refining(j) THEN refineFrom(base, refineNewMoon(base, t, start), start, j + 1)
  ELSE t

\* The outer loop from iteration n on.
RECURSIVE searchFrom(_, _, _, _)
searchFrom(base, t, start, n) ==
  IF ~outerGoesOn(n) THEN JsNull
  ELSE With([newMoon \in {refineFrom(base, estimateNewMoon(base, t, start), start, 0)} |->
         IF isGlobalEclipse(astronomyAt(base, newMoon, start).depth)
         THEN With([scan \in {scanRange(base, newMoon, start, 1, ScanSamples,
                                        scanInit(newMoon))} |->
                IF scan.found THEN JsNumber(scan.bestT)
                ELSE searchFrom(base, stepPastNewMoon(newMoon), start, n + 1)])
         ELSE searchFrom(base, stepPastNewMoon(newMoon), start, n + 1)])

findNextLocalEclipse(base, current, start) ==
  searchFrom(base, searchStart(current), start, 0)


-----------------------------------------------------------------------------
(* What the specifications share.                                           *)

IsNone(x) == "none" \in DOMAIN x

\* The parameters of a scenario; the tilt of the observer's horizon and the
\* anomaly of the Moon play no part in the geometry.
Parameters(node, sun, phase, mode, lat, lon, rotation) ==
  [ascendingNodeLon |-> node, sunEclipticLon |-> sun, moonNodePhase |-> phase,
   moonDistanceMode |-> mode, moonAnomaly |-> 10000, observerLat |-> lat,
   observerLon |-> lon, observerTilt |-> 18000, earthRotation |-> rotation]

appVars    == <<params, startDate, simHours, isPlaying, alertShown, now>>
modelVars  == <<liveState, model, backState, backModel, directModel>>
searchVars == <<currentSimHours, search, nextT, scanned, examined, searches>>
heapVars   == <<heap, paramsRef, stateRef, modelRef, renders>>
playVars   == <<speed, perfNow, prev>>
engineVars == <<args, returned>>
landVars   == <<LAND_STORE, request, fetches, events, landDataVersion, drawDue,
                draws, activeViewId, returns>>

NoModel ==
  /\ liveState = None /\ model = None /\ backState = None
  /\ backModel = None /\ directModel = None

NoSearch ==
  /\ currentSimHours = 0 /\ search = None /\ nextT = None
  /\ scanned = <<>> /\ examined = <<>> /\ searches = 0

NoPlay ==
  /\ speed = 3600 /\ perfNow = 0 /\ prev = 0

NoEngine ==
  /\ args = None /\ returned = None

\* const LAND_STORE = { status: 'idle', features: [] }, useState(0) of
\* landDataVersion, useState(VIEWS[0].id) of activeViewId, and nothing drawn
\* yet.
NoLand ==
  /\ LAND_STORE = [status |-> "idle", features |-> <<>>]
  /\ request = "none" /\ fetches = 0 /\ events = 0
  /\ landDataVersion = 0 /\ drawDue = TRUE /\ draws = 0 /\ returns = <<>>
  /\ activeViewId = "earth"

NoHeap ==
  /\ heap = <<>> /\ paramsRef = 0 /\ stateRef = 0 /\ modelRef = 0 /\ renders = 0

-----------------------------------------------------------------------------
(* SpecModel: a state is derived from the parameters and a model from the   *)
(* state, as App renders them; the state is propagated once more by zero    *)
(* hours; the parameters are handed to deriveModel as they are.             *)

\* A total and an annular eclipse on the node, a partial one whose axis
\* passes the Earth by, a new moon far from the node, a Moon far from the
\* Sun, the ends of the sliders, and the Moon half a turn from a node that
\* lies beyond 180 degrees.
ModelBases ==
  {Parameters(100000, 100000, 0, 0, 55000, 37000, 200000),
   Parameters(100000, 100000, 0, Micro, 55000, 37000, 200000),
   Parameters(100000, 115000, 15000, 500000, 55000, 37000, 200000),
   Parameters(100000, 190000, 90000, 500000, -30000, 120000, 0),
   Parameters(100000, 160000, 10000, 500000, 0, 0, 90000),
   Parameters(360000, 0, 180000, 0, 90000, 180000, 360000),
   Parameters(0, 0, 0, 500000, 55000, 37000, 180000),
   Parameters(200000, 20000, 180000, 500000, 55000, 37000, 200000)}

ModelStartDates == {490000000, 473364000}

ModelHours == {0, 10000}

InitModel ==
  /\ params \in ModelBases
  /\ startDate \in ModelStartDates
  /\ simHours \in ModelHours
  /\ now = startDate
  /\ isPlaying = FALSE
  /\ alertShown = FALSE
  /\ calls = <<>>
  /\ NoModel /\ NoSearch /\ NoHeap
  /\ NoPlay /\ NoEngine /\ NoLand

\* const liveState = useMemo(() => deriveSimulationState(params, simHours,
\* startDate), ...); const model = useMemo(() => deriveModel(liveState), ...).
Render ==
  /\ IsNone(liveState)
  /\ liveState' = deriveSimulationState(params, simHours, startDate)
  /\ model' = deriveModel(liveState')
  /\ UNCHANGED <<backState, backModel, directModel>>
  /\ UNCHANGED <<appVars, calls, searchVars, heapVars>>
  /\ UNCHANGED <<playVars, engineVars, landVars>>

\* deriveSimulationState(liveState, 0, startDate) and deriveModel of it.
DeriveAgain ==
  /\ ~IsNone(liveState)
  /\ IsNone(backState)
  /\ backState' = deriveSimulationState(liveState, 0, startDate)
  /\ backModel' = deriveModel(backState')
  /\ UNCHANGED <<liveState, model, directModel>>
  /\ UNCHANGED <<appVars, calls, searchVars, heapVars>>
  /\ UNCHANGED <<playVars, engineVars, landVars>>

\* deriveModel(params).
DeriveDirect ==
  /\ IsNone(directModel)
  /\ directModel' = deriveModel(params)
  /\ UNCHANGED <<liveState, model, backState, backModel>>
  /\ UNCHANGED <<appVars, calls, searchVars, heapVars>>
  /\ UNCHANGED <<playVars, engineVars, landVars>>

NextModel == Render \/ DeriveAgain \/ DeriveDirect

SpecModel == InitModel /\ [][NextModel]_vars

\* 0 <= depth <= 1, and depth is 0 exactly when both footprints are 0.
DepthAndFootprints(m) ==
  /\ 0 <= m.depth
  /\ m.depth <= Micro
  /\ (m.depth = 0) <=> (m.umbraRadiusDeg = 0 /\ m.penumbraRadiusDeg = 0)

\* C1: the model derived from a state that deriveSimulationState produced
\* from valid parameters has 0 <= depth <= 1, and its depth is 0 if and only
\* if its umbraRadiusDeg and its penumbraRadiusDeg are both 0.
C1_DepthAndFootprints ==
  /\ ~IsNone(model) => DepthAndFootprints(model)
  /\ ~IsNone(backModel) => DepthAndFootprints(backModel)

\* A partial eclipse whose axis misses the Earth: the umbra is 0, the
\* penumbra is not, the depth is strictly between 0 and 1.
C1_Witness ==
  /\ ~IsNone(model)
  /\ 0 < model.depth
  /\ model.depth < Micro
  /\ model.umbraRadiusDeg = 0
  /\ model.penumbraRadiusDeg > 0

\* C8: at zero elapsed hours the model derived from the state that
\* deriveSimulationState(base, 0, start) returns is equal to the model that
\* deriveModel returns for the base parameters themselves.
C8_ZeroHoursModelIsDirectModel ==
  (simHours = 0 /\ ~IsNone(model) /\ ~IsNone(directModel))
    => ModelsEqual(model, directModel)

-----------------------------------------------------------------------------
(* SpecReplay: deriveSimulationState is called again and again with the     *)
(* parameters App holds, at several elapsed times, while the wall clock     *)
(* runs; the state it returned is propagated back by the same time.         *)

\* The number of calls of one behaviour.
MaxCalls == 3

\* The number of ticks of the wall clock of one behaviour.
MaxTicks == 1

\* The parameters as seeded, the ends of the sliders, and wrapped angles.
ReplayBases ==
  {Parameters(100000, 100000, 0, 0, 55000, 37000, 200000),
   Parameters(360000, 0, 180000, Micro, 90000, 180000, 360000),
   Parameters(0, 359900, -180000, 500000, -90000, -180000, 500)}

\* Elapsed hours: none, some, negative, a century.
ReplayHours == {0, 100000, -250500, 876600000}

InitReplay ==
  /\ params \in ReplayBases
  /\ startDate = 490000000
  /\ now = startDate
  /\ simHours = 0
  /\ isPlaying = FALSE
  /\ alertShown = FALSE
  /\ calls = <<>>
  /\ NoModel /\ NoSearch /\ NoHeap
  /\ NoPlay /\ NoEngine /\ NoLand

\* One call as the log keeps it: the arguments and the state returned.
Call(base, hours, start, result) ==
  [base |-> base, simHours |-> hours, startDate |-> start, result |-> result]

SameArguments(a, b) ==
  a.base = b.base /\ a.simHours = b.simHours /\ a.startDate = b.startDate

\* deriveSimulationState(params, hours, startDate).
Derive(hours) ==
  /\ Len(calls) < MaxCalls
  /\ liveState' = deriveSimulationState(params, hours, startDate)
  /\ backState' = None
  /\ calls' = Append(calls, Call(params, hours, startDate, liveState'))
  /\ UNCHANGED <<model, backModel, directModel>>
  /\ UNCHANGED <<appVars, searchVars, heapVars>>
  /\ UNCHANGED <<playVars, engineVars, landVars>>

\* deriveSimulationState(liveState, -liveState.simHours, startDate).
DeriveBack ==
  /\ Len(calls) < MaxCalls
  /\ ~IsNone(liveState)
  /\ IsNone(backState)
  /\ backState' = deriveSimulationState(liveState, -liveState.simHours, startDate)
  /\ calls' = Append(calls, Call(liveState, -liveState.simHours, startDate, backState'))
  /\ UNCHANGED <<liveState, model, backModel, directModel>>
  /\ UNCHANGED <<appVars, searchVars, heapVars>>
  /\ UNCHANGED <<playVars, engineVars, landVars>>

\* An hour of wall-clock time passes.
ClockTick ==
  /\ now < startDate + MaxTicks * 1000
  /\ now' = now + 1000
  /\ UNCHANGED <<params, startDate, simHours, isPlaying, alertShown>>
  /\ UNCHANGED <<modelVars, calls, searchVars, heapVars>>
  /\ UNCHANGED <<playVars, engineVars, landVars>>

NextReplay == (\E hours \in ReplayHours : Derive(hours)) \/ DeriveBack \/ ClockTick

SpecReplay == InitReplay /\ [][NextReplay]_vars

PropagatedAngles ==
  {"earthRotation", "sunEclipticLon", "ascendingNodeLon", "moonNodePhase", "moonAnomaly"}

EqualModulo360(a, b) == normalize360(a - b) = 0

\* C7: propagating the parameters by +h hours and the resulting state by -h
\* hours returns earthRotation, sunEclipticLon, ascendingNodeLon,
\* moonNodePhase and moonAnomaly equal to the original ones modulo 360.
C7_RoundTrip ==
  ~IsNone(backState) =>
    \A angle \in PropagatedAngles : EqualModulo360(backState[angle], params[angle])

\* A round trip over a negative time that moved and wrapped the angles.
C7_Witness ==
  /\ ~IsNone(backState)
  /\ liveState.simHours < 0
  /\ \A angle \in PropagatedAngles : liveState[angle] # params[angle]
  /\ backState.earthRotation # params.earthRotation

-----------------------------------------------------------------------------
(* SpecSearch: the button "next eclipse at this point".  The handler calls  *)
(* findNextLocalEclipse(params, simHours, startDate), whose loops are taken *)
(* one pass at a time, and then acts on the value returned.                 *)

\* The test of a caller that takes 0 for "nothing found".
isTruthy(value) == ~value.isNull /\ value.value # 0

\* if (nextT !== null).
isFound(value) == value # JsNull

\* The calls: an eclipse visible at the first new moon, whose nearest sample
\* is not a visible one; no eclipse at the first new moon and one visible at
\* the second; none visible within the horizon, the second new moon scanned
\* in vain; a call at a negative elapsed time whose answer is 0; and a call
\* a day after a new moon, the observer where the centre of the shadow is
\* drawn 5.4 h after the next.
SearchCalls ==
  {[base |-> Parameters(100000, 60000, -50000, 500000, 0, -60000, 0),
    current |-> 0, start |-> 490000000],
   [base |-> Parameters(100000, 30000, -80000, 500000, -30000, 60000, 0),
    current |-> 0, start |-> 490000000],
   [base |-> Parameters(100000, 30000, -80000, 500000, 0, 0, 0),
    current |-> 0, start |-> 490000000],
   [base |-> Parameters(98393, 89929, -8312, 500000, 0, -62000, 160801),
    current |-> -50000, start |-> 490728725],
   [base |-> Parameters(100000, 60000, -50000, 500000, -9400, -61460, 0),
    current |-> 30000, start |-> 490000000]}

InitSearch ==
  /\ \E call \in SearchCalls :
       /\ params = call.base
       /\ simHours = call.current
       /\ startDate = call.start
  /\ now = startDate
  /\ isPlaying = TRUE
  /\ alertShown = FALSE
  /\ calls = <<>>
  /\ NoModel /\ NoSearch /\ NoHeap
  /\ NoPlay /\ NoEngine /\ NoLand

\* The call: let t = currentSimHours + 24, i = 0.
SearchCall ==
  /\ IsNone(search)
  /\ currentSimHours' = simHours
  /\ search' = [pc |-> "loop", from |-> searchStart(simHours), t |-> searchStart(simHours),
                i |-> 0, j |-> 0, k |-> 0, scan |-> scanInit(searchStart(simHours))]
  /\ searches' = searches + 1
  /\ UNCHANGED <<nextT, scanned, examined>>
  /\ UNCHANGED <<appVars, modelVars, calls, heapVars>>
  /\ UNCHANGED <<playVars, engineVars, landVars>>

\* The head of the outer loop: the estimate of the next new moon.
SearchEstimate ==
  /\ ~IsNone(search)
  /\ search.pc = "loop"
  /\ outerGoesOn(search.i)
  /\ search' = [search EXCEPT !.pc = "refine", !.from = search.t, !.j = 0,
                              !.t = estimateNewMoon(params, search.t, startDate)]
  /\ UNCHANGED <<currentSimHours, nextT, scanned, examined, searches>>
  /\ UNCHANGED <<appVars, modelVars, calls, heapVars>>
  /\ UNCHANGED <<playVars, engineVars, landVars>>

\* One pass of the refinement loop.
SearchRefine ==
  /\ ~IsNone(search)
  /\ search.pc = "refine"
  /\ refining(search.j)
  /\ search' = [search EXCEPT !.j = search.j + 1,
                              !.t = refineNewMoon(params, search.t, startDate)]
  /\ UNCHANGED <<currentSimHours, nextT, scanned, examined, searches>>
  /\ UNCHANGED <<appVars, modelVars, calls, heapVars>>
  /\ UNCHANGED <<playVars, engineVars, landVars>>

\* The new moon as the log of examined candidates keeps it.
Examined(from, newMoon, global, local) ==
  [from |-> from, newMoon |-> newMoon, refinements |-> search.j,
   global |-> global, local |-> local]

\* The refinement is over: the depth at the new moon decides between the
\* scan and the step past this new moon.
SearchCheck ==
  /\ ~IsNone(search)
  /\ search.pc = "refine"
  /\ ~refining(search.j)
  /\ IF isGlobalEclipse(astronomyAt(params, search.t, startDate).depth)
     THEN /\ search' = [search EXCEPT !.pc = "scan", !.k = 1, !.scan = scanInit(search.t)]
          /\ examined' = Append(examined, Examined(search.from, search.t, TRUE, FALSE))
     ELSE /\ search' = [search EXCEPT !.pc = "loop", !.i = search.i + 1,
                                     !.t = stepPastNewMoon(search.t)]
          /\ examined' = Append(examined, Examined(search.from, search.t, FALSE, FALSE))
  /\ scanned' = <<>>
  /\ UNCHANGED <<currentSimHours, nextT, searches>>
  /\ UNCHANGED <<appVars, modelVars, calls, heapVars>>
  /\ UNCHANGED <<playVars, engineVars, landVars>>

\* One pass of the scan loop.
SearchScan ==
  /\ ~IsNone(search)
  /\ search.pc = "scan"
  /\ scanning(search.k)
  /\ scanned' = Append(scanned, scanSample(params, search.t, startDate, scanHour(search.k)))
  /\ search' = [search EXCEPT !.k = search.k + 1,
                              !.scan = scanStep(search.scan, scanned'[search.k])]
  /\ UNCHANGED <<currentSimHours, nextT, examined, searches>>
  /\ UNCHANGED <<appVars, modelVars, calls, heapVars>>
  /\ UNCHANGED <<playVars, engineVars, landVars>>

\* The scan is over: if (found) return bestT; otherwise t += 24.
SearchScanEnd ==
  /\ ~IsNone(search)
  /\ search.pc = "scan"
  /\ ~scanning(search.k)
  /\ examined' = [examined EXCEPT ![Len(examined)].local = search.scan.found]
  /\ IF search.scan.found
     THEN /\ nextT' = JsNumber(search.scan.bestT)
          /\ search' = [search EXCEPT !.pc = "returned"]
     ELSE /\ nextT' = nextT
          /\ search' = [search EXCEPT !.pc = "loop", !.i = search.i + 1,
                                     !.t = stepPastNewMoon(search.t)]
  /\ UNCHANGED <<currentSimHours, scanned, searches>>
  /\ UNCHANGED <<appVars, modelVars, calls, heapVars>>
  /\ UNCHANGED <<playVars, engineVars, landVars>>

\* The outer loop is over: return null.
SearchExhausted ==
  /\ ~IsNone(search)
  /\ search.pc = "loop"
  /\ ~outerGoesOn(search.i)
  /\ nextT' = JsNull
  /\ search' = [search EXCEPT !.pc = "returned"]
  /\ UNCHANGED <<currentSimHours, scanned, examined, searches>>
  /\ UNCHANGED <<appVars, modelVars, calls, heapVars>>
  /\ UNCHANGED <<playVars, engineVars, landVars>>

\* The handler that pauses the animation whatever the search returned.
HandleResultPausing ==
  /\ ~IsNone(search)
  /\ search.pc = "returned"
  /\ IF isFound(nextT)
     THEN /\ simHours' = nextT.value
          /\ alertShown' = alertShown
     ELSE /\ alertShown' = TRUE
          /\ simHours' = simHours
  /\ isPlaying' = FALSE
  /\ search' = [search EXCEPT !.pc = "handled"]
  /\ UNCHANGED <<params, startDate, now>>
  /\ UNCHANGED <<currentSimHours, nextT, scanned, examined, searches>>
  /\ UNCHANGED <<modelVars, calls, heapVars>>
  /\ UNCHANGED <<playVars, engineVars, landVars>>

\* if (nextT !== null) { setSimHours(nextT); setIsPlaying(false); }
\* else { alert(...); }
HandleResult ==
  /\ ~IsNone(search)
  /\ search.pc = "returned"
  /\ IF isFound(nextT)
     THEN /\ simHours' = nextT.value
          /\ isPlaying' = FALSE
          /\ alertShown' = alertShown
     ELSE /\ alertShown' = TRUE
          /\ UNCHANGED <<simHours, isPlaying>>
  /\ search' = [search EXCEPT !.pc = "handled"]
  /\ UNCHANGED <<params, startDate, now>>
  /\ UNCHANGED <<currentSimHours, nextT, scanned, examined, searches>>
  /\ UNCHANGED <<modelVars, calls, heapVars>>
  /\ UNCHANGED <<playVars, engineVars, landVars>>

NextSearch ==
  \/ SearchCall \/ SearchEstimate \/ SearchRefine \/ SearchCheck
  \/ SearchScan \/ SearchScanEnd \/ SearchExhausted \/ HandleResult

SpecSearch == InitSearch /\ [][NextSearch]_vars

Returned == ~IsNone(search) /\ search.pc \in {"returned", "handled"}

Handled == ~IsNone(search) /\ search.pc = "handled"

Qualified(e) == e.global /\ e.local

\* The counters stay within the loops' limits, every examined new moon was
\* refined three times, and null is returned exactly when the outer loop ran
\* out without a new moon that qualified.
SearchBounded ==
  ~IsNone(search) =>
    /\ search.i <= SearchHorizon
    /\ search.j <= 3
    /\ Len(examined) <= SearchHorizon
    /\ Len(scanned) <= ScanSamples
    /\ \A n \in DOMAIN examined : examined[n].refinements = 3
    /\ (search.pc = "scan" /\ ~scanning(search.k)) => Len(scanned) = ScanSamples
    /\ Returned =>
         /\ (nextT = JsNull) <=> (\A n \in DOMAIN examined : ~Qualified(examined[n]))
         /\ (nextT = JsNull) => (search.i = SearchHorizon /\ Len(examined) = SearchHorizon)

\* Some pass of the handler can be taken: the tests of the loops leave no
\* position without a next step before the handler is over.
SearchCanStep ==
  \/ IsNone(search)
  \/ search.pc = "loop" /\ (outerGoesOn(search.i) \/ ~outerGoesOn(search.i))
  \/ search.pc = "refine" /\ (refining(search.j) \/ ~refining(search.j))
  \/ search.pc = "scan" /\ (scanning(search.k) \/ ~scanning(search.k))
  \/ search.pc = "returned"

\* The passes one outer iteration can take, and more.
PassesOfIteration == ScanSamples + 9

\* The number of passes the handler can still take, at most.
SearchMeasure ==
  IF IsNone(search) THEN (SearchHorizon + 2) * PassesOfIteration
  ELSE IF search.pc = "handled" THEN 0
  ELSE IF search.pc = "returned" THEN 1
  ELSE (SearchHorizon - search.i) * PassesOfIteration
       + (IF search.pc = "loop" THEN PassesOfIteration
          ELSE IF search.pc = "refine" THEN PassesOfIteration - 1 - search.j
          ELSE PassesOfIteration - 5 - search.k)

\* C2: findNextLocalEclipse terminates: it runs at most the horizon's outer
\* iterations (10000 in the code), each with exactly 3 refinement steps and
\* at most 121 scan samples, returns the not-found value when no iteration
\* finds local visibility, and every pass brings the end nearer.
C2_Terminates ==
  /\ [](SearchBounded /\ SearchMeasure >= 0 /\ (Handled \/ SearchCanStep))
  /\ [][SearchMeasure' < SearchMeasure]_vars

\* The horizon is exhausted, one of its new moons scanned in vain.
C2_Witness ==
  /\ Returned
  /\ nextT = JsNull
  /\ search.i = SearchHorizon
  /\ \E n \in DOMAIN examined : examined[n].global /\ ~examined[n].local
  /\ \E n \in DOMAIN examined : ~examined[n].global

\* C3: not-found is null, which equals no answer in simulated hours, and the
\* caller takes every number, 0 included, as found: it moves the simulation
\* to the answer and pauses, and alerts exactly when null was returned.
C3_NullIsNoAnswer ==
  /\ Returned =>
       /\ JsNull # JsNumber(0)
       /\ nextT # JsNull => nextT = JsNumber(nextT.value)
       /\ \A n \in DOMAIN scanned : JsNull # JsNumber(scanned[n].scanT)
  /\ Handled =>
       /\ alertShown <=> nextT = JsNull
       /\ nextT # JsNull => (simHours = nextT.value /\ ~isPlaying)
       /\ nextT = JsNull => (simHours = currentSimHours /\ isPlaying)

\* The answer is 0 simulated hours and the caller took it as found.
C3_Witness ==
  /\ Handled
  /\ nextT = JsNumber(0)
  /\ ~alertShown
  /\ simHours = 0
  /\ currentSimHours # 0
  /\ ~isPlaying

\* The distance of the sample is at most 6371 km times the penumbra's radius
\* in radians plus 25 km (in metres).
WithinPenumbra(sample) ==
  sample.observerToShadowKm
    <= Mul(EARTH_RADIUS_KM * 1000, ToRad(sample.penumbraRadiusDeg)) + 25000

\* C4: a value returned is one of the scanned instants, the refined new moon
\* plus k * 0.1 h within -6..+6 h, and there the observer is within the
\* penumbra's surface radius plus 25 km of the shadow's centre.
C4_ReturnedIsVisibleSample ==
  (Returned /\ nextT # JsNull) =>
    \E k \in DOMAIN scanned :
      /\ k \in 1..ScanSamples
      /\ scanned[k].scanT = search.t + (k - 61) * 100
      /\ scanned[k].scanT = nextT.value
      /\ WithinPenumbra(scanned[k])

\* An instant other than the new moon is returned while some samples of the
\* window lie outside the penumbra.
C4_Witness ==
  /\ Returned
  /\ nextT # JsNull
  /\ nextT.value # search.t
  /\ \E k \in DOMAIN scanned : ~WithinPenumbra(scanned[k])
  /\ \E k \in DOMAIN scanned : WithinPenumbra(scanned[k]) /\ scanned[k].scanT # nextT.value

\* C5 as stated: no scanned instant of the window is nearer to the shadow's
\* centre than the instant returned.
C5_NearestOfWindow ==
  (Returned /\ nextT # JsNull) =>
    \E b \in DOMAIN scanned :
      /\ scanned[b].scanT = nextT.value
      /\ \A k \in DOMAIN scanned :
           scanned[k].observerToShadowKm >= scanned[b].observerToShadowKm

\* C5: the instant returned is the nearest to the shadow's centre among the
\* locally visible instants of the window, and the earliest of those at that
\* distance.
C5_NearestOfVisible ==
  (Returned /\ nextT # JsNull) =>
    \E b \in DOMAIN scanned :
      /\ scanned[b].scanT = nextT.value
      /\ scanned[b].visible
      /\ \A k \in DOMAIN scanned :
           scanned[k].visible =>
             /\ scanned[k].observerToShadowKm >= scanned[b].observerToShadowKm
             /\ k < b => scanned[k].observerToShadowKm > scanned[b].observerToShadowKm

\* An instant is returned although a sample that is not visible is nearer,
\* and visible samples come before and after it.
C5_Witness ==
  /\ Returned
  /\ nextT # JsNull
  /\ \E b \in DOMAIN scanned :
       /\ scanned[b].scanT = nextT.value
       /\ \E k \in DOMAIN scanned :
            /\ ~scanned[k].visible
            /\ scanned[k].observerToShadowKm < scanned[b].observerToShadowKm
       /\ \E k \in 1..(b - 1) : scanned[k].visible
       /\ \E k \in (b + 1)..Len(scanned) : scanned[k].visible

\* Two instants within a day of each other are the same new moon.
SameNewMoon(a, b) == Abs(a - b) < 24000

\* C6: the new moons are examined in strictly increasing order, the first
\* from one day after currentSimHours, each next from one day past the one
\* rejected before; none is examined twice; every one before the last was
\* rejected, and an answer lies in the window of the last, which qualified.
C6_FirstQualifyingNewMoon ==
  /\ Len(examined) > 0 => examined[1].from = currentSimHours + 24000
  /\ \A n \in DOMAIN examined :
       n > 1 =>
         /\ examined[n].from = examined[n - 1].newMoon + 24000
         /\ examined[n].newMoon > examined[n - 1].newMoon
         /\ ~Qualified(examined[n - 1])
  /\ \A m \in DOMAIN examined : \A n \in DOMAIN examined :
       m # n => ~SameNewMoon(examined[m].newMoon, examined[n].newMoon)
  /\ (Returned /\ nextT # JsNull) =>
       /\ Qualified(examined[Len(examined)])
       /\ Abs(nextT.value - examined[Len(examined)].newMoon) <= 6000

\* The first new moon has no eclipse and the second is the answer.
C6_Witness ==
  /\ Returned
  /\ nextT # JsNull
  /\ Len(examined) = 2
  /\ ~examined[1].global
  /\ Qualified(examined[2])

-----------------------------------------------------------------------------
(* SpecHeap: the objects the program holds.  A reference is the index of an *)
(* object on the heap; an object literal allocates, an assignment to a      *)
(* property writes into the object referred to; what a call allocated for   *)
(* itself alone is released when it returns.                                *)

\* The number of objects the heap of the model holds.
MaxObjects == 7

\* The number of searches of one behaviour.
MaxSearches == 1

\* { ... }: a new object.
alloc(h, object) == Append(h, object)

\* object[key] = value.
store(h, ref, key, value) == [h EXCEPT ![ref] = (key :> value) @@ @]

\* The objects from..to are dropped; the ones before them stay where they are.
release(h, from, to) == SubSeq(h, 1, from - 1) \o SubSeq(h, to + 1, Len(h))

\* An update that writes the field into the object App holds.
updateFieldInPlace(h, ref, key, value) ==
  [heap |-> store(h, ref, key, value), ref |-> ref]

\* setParams((current) => ({ ...current, [key]: value })).
updateField(h, ref, key, value) ==
  [heap |-> alloc(h, (key :> value) @@ h[ref]), ref |-> Len(h) + 1]

\* One pass of the loop of buildGroundTrack: sampleControls is a new object,
\* and the assignment to its moonEclipticLon writes into it.
sampleOnHeap(h, controlsRef, hour) ==
  With([h1 \in {alloc(h, sampleSpread(h[controlsRef], hour))} |->
    store(h1, Len(h1), "moonEclipticLon", sampleMoonEclipticLon(h1[Len(h1)]))])

RECURSIVE trackOnHeap(_, _, _)
trackOnHeap(h, controlsRef, n) ==
  IF n > Len(TrackHours) THEN h
  ELSE trackOnHeap(sampleOnHeap(h, controlsRef, TrackHours[n]), controlsRef, n + 1)

\* deriveSimulationState returns a new object; deriveModel returns a new
\* object after buildGroundTrack made and dropped its samples.
renderOnHeap(h, baseRef, hours, start) ==
  With([h1 \in {alloc(h, deriveSimulationState(h[baseRef], hours, start))} |->
  With([h2 \in {trackOnHeap(h1, Len(h1), 1)} |->
  With([h3 \in {release(h2, Len(h1) + 1, Len(h2))} |->
    [heap |-> alloc(h3, deriveModel(h3[Len(h1)])),
     stateRef |-> Len(h1),
     modelRef |-> Len(h3) + 1]])])])

\* New moons far from the nodes: no eclipse within the horizon.
HeapBase == Parameters(100000, 130000, 50000, 500000, 55000, 37000, 200000)

\* The sliders moved in the model, with the values they are moved to.
FieldEdits ==
  {<<"observerLat", -30000>>, <<"observerLat", 90000>>,
   <<"observerLon", 120000>>, <<"observerLon", -180000>>,
   <<"earthRotation", 0>>, <<"earthRotation", 360000>>}

InitHeap ==
  /\ params = HeapBase
  /\ startDate = 490000000
  /\ now = startDate
  /\ simHours = 0
  /\ isPlaying = FALSE
  /\ alertShown = FALSE
  /\ calls = <<>>
  /\ NoModel /\ NoSearch
  /\ NoPlay /\ NoEngine /\ NoLand
  /\ heap = <<HeapBase>>
  /\ paramsRef = 1
  /\ stateRef = 0
  /\ modelRef = 0
  /\ renders = 0

\* The handlers run on what was rendered: no event comes before the render
\* that follows a change.
Rendered == stateRef # 0

\* onChange={(event) => updateField(field.key, Number(event.target.value))};
\* liveState and model are recomputed by the next render.
UpdateField(key, value) ==
  /\ Rendered
  /\ Len(heap) < MaxObjects
  /\ heap[paramsRef][key] # value
  /\ \E updated \in {updateField(heap, paramsRef, key, value)} :
       /\ heap' = updated.heap
       /\ paramsRef' = updated.ref
       /\ params' = updated.heap[updated.ref]
  /\ stateRef' = 0
  /\ modelRef' = 0
  /\ UNCHANGED <<startDate, simHours, isPlaying, alertShown, now, renders>>
  /\ UNCHANGED <<modelVars, calls, searchVars>>
  /\ UNCHANGED <<playVars, engineVars, landVars>>

\* The render after a change: liveState and model are derived anew.
HeapRender ==
  /\ ~Rendered
  /\ Len(heap) + 2 <= MaxObjects
  /\ \E rendered \in {renderOnHeap(heap, paramsRef, simHours, startDate)} :
       /\ heap' = rendered.heap
       /\ stateRef' = rendered.stateRef
       /\ modelRef' = rendered.modelRef
  /\ renders' = renders + 1
  /\ UNCHANGED <<paramsRef, appVars, modelVars, calls, searchVars>>
  /\ UNCHANGED <<playVars, engineVars, landVars>>

\* The button "next eclipse at this point": findNextLocalEclipse reads the
\* object of the parameters; the states it derives on its way are its own.
NextEclipseClick ==
  /\ Rendered
  /\ searches < MaxSearches
  /\ currentSimHours' = simHours
  /\ nextT' = findNextLocalEclipse(heap[paramsRef], simHours, startDate)
  /\ IF isFound(nextT')
     THEN /\ simHours' = nextT'.value
          /\ isPlaying' = FALSE
          /\ alertShown' = alertShown
          /\ stateRef' = 0
          /\ modelRef' = 0
     ELSE /\ alertShown' = TRUE
          /\ UNCHANGED <<simHours, isPlaying, stateRef, modelRef>>
  /\ searches' = searches + 1
  /\ UNCHANGED <<params, startDate, now, heap, paramsRef, renders>>
  /\ UNCHANGED <<modelVars, calls, search, scanned, examined>>
  /\ UNCHANGED <<playVars, engineVars, landVars>>

\* onClick={() => setIsPlaying((current) => !current)}: params, simHours and
\* startDate stay, and so do liveState and model.
TogglePlaying ==
  /\ Rendered
  /\ isPlaying' = ~isPlaying
  /\ UNCHANGED <<params, startDate, simHours, alertShown, now>>
  /\ UNCHANGED <<modelVars, calls, searchVars, heapVars>>
  /\ UNCHANGED <<playVars, engineVars, landVars>>

NextHeap ==
  \/ \E edit \in FieldEdits : UpdateField(edit[1], edit[2])
  \/ HeapRender
  \/ NextEclipseClick
  \/ TogglePlaying

SpecHeap == InitHeap /\ [][NextHeap]_vars

-----------------------------------------------------------------------------
(* The ranges of the angles of a state.                                     *)

InTurn(angle) == 0 <= angle /\ angle < 360000

InHalfTurns(angle) == -180000 <= angle /\ angle < 180000

AnglesWrapped(st) ==
  /\ \A angle \in {"earthRotation", "sunEclipticLon", "ascendingNodeLon",
                   "descendingNodeLon", "moonEclipticLon", "moonAnomaly"} :
       InTurn(st[angle])
  /\ InHalfTurns(st.moonNodePhase)

\* C11: every state deriveSimulationState returns has earthRotation,
\* sunEclipticLon, ascendingNodeLon, descendingNodeLon, moonEclipticLon and
\* moonAnomaly in [0,360) and moonNodePhase in [-180,180).
C11_StateAnglesWrapped ==
  \A n \in DOMAIN calls : AnglesWrapped(calls[n].result)

-----------------------------------------------------------------------------
(* The ranges of the longitudes of a model.                                 *)

InSignedLongitude(lon) == -180000 < lon /\ lon <= 180000

ModelLongitudes(m) ==
  /\ \A lon \in {"centralLon", "subSolarLon", "subLunarLon"} :
       InSignedLongitude(m[lon])
  /\ \A lon \in {"ascendingNodeLon", "descendingNodeLon", "sunEclipticLon",
                 "moonEclipticLon", "gmstDeg"} :
       InTurn(m[lon])

\* C12: in every model deriveModel produces, centralLon, subSolarLon and
\* subLunarLon lie in (-180,180], the value -180 never being produced, and
\* ascendingNodeLon, descendingNodeLon, sunEclipticLon, moonEclipticLon and
\* gmstDeg lie in [0,360).
C12_ModelLongitudes ==
  /\ ~IsNone(model) => ModelLongitudes(model)
  /\ ~IsNone(backModel) => ModelLongitudes(backModel)

-----------------------------------------------------------------------------
(* SpecEngine: the functions of the geometry are called as a library calls  *)
(* them, on arguments of their whole domain: computeAstronomy,             *)
(* overlapFraction, classifyEclipse, and the part of computeAstronomy that *)
(* turns two discs into depth, footprints and class, which is then         *)
(* followed while the separation shrinks.                                  *)

\* The separation shrinks by this much from one evaluation to the next.
SweepStep == 20

\* Values of moonDistanceMode, in micro: the slider's 0, 0.5 and 1, and values
\* no slider gives.
EngineModes == {-Micro, -1, 0, 500000, Micro, Micro + 1, 3 * Micro}

\* The Moon before the Sun's centre, half a degree off it, 1.2 degrees off it
\* (the axis of the shadow passing the Earth by), far from it, and behind the
\* Earth, off the line of Sun and Earth and on it.
EngineBases(mode) ==
  {Parameters(100000, 100000, 0, mode, 55000, 37000, 200000),
   Parameters(100000, 105600, 5600, mode, 55000, 37000, 200000),
   Parameters(100000, 113500, 13500, mode, 55000, 37000, 200000),
   Parameters(100000, 160000, 10000, mode, 0, 0, 90000),
   Parameters(100000, 280000, 3000, mode, 0, 0, 90000),
   Parameters(360000, 0, 180000, mode, 90000, 180000, 360000)}

AstronomyArgs ==
  {With([st \in {deriveSimulationState(base, 0, 490000000)} |->
     [fn |-> "computeAstronomy", julianDay |-> st.julianDay, controls |-> st,
      rotationOffsetDeg |-> normalize180(st.earthRotation - st.gmst)]]) :
     base \in UNION {EngineBases(mode) : mode \in EngineModes}}

\* Angular radii in mdeg: none, and the Sun's and the Moon's as the distances
\* give them (the arithmetic of overlapFraction here holds radii up to 290).
SunRadii == {0, 260, 262, 270}

MoonRadii == {0, 245, 270, 280}

OverlapArgs ==
  {[fn |-> "overlapFraction", sunRadiusDeg |-> r1, moonRadiusDeg |-> r2,
    separationDeg |-> d] :
     <<r1, r2, d>> \in
       UNION {{<<r1, r2, d>> :
                 d \in {0, Abs(r1 - r2), (r1 + r2) \div 2, r1 + r2, r1 + r2 + 1000}} :
              <<r1, r2>> \in SunRadii \X MoonRadii}}

ClassifyArgs ==
  {[fn |-> "classifyEclipse", bestSeparationDeg |-> d, sunRadiusDeg |-> r[1],
    moonRadiusDeg |-> r[2], depth |-> depth, axisHitsEarth |-> hits] :
     <<d, r, depth, hits>> \in
       {0, 8, 9, 300, 531, 532} \X {<<262, 270>>, <<270, 262>>, <<266, 266>>}
         \X {0, 500, 501, Micro} \X BOOLEAN}

\* The discs of a sweep: a larger Moon twice (the second in the ratio
\* 0.56 : 0.52), a larger Sun, equal discs; the separation starts where the
\* discs touch, or a degree beyond.
EclipseArgs ==
  {[fn |-> "eclipseOf", sunAngularRadiusDeg |-> r[1], moonAngularRadiusDeg |-> r[2],
    moonParallaxDeg |-> 950, bestSeparationDeg |-> r[1] + r[2] + beyond,
    hitsEarth |-> hits] :
     <<r, beyond, hits>> \in
       {<<262, 270>>, <<260, 280>>, <<270, 245>>, <<266, 266>>} \X {0, 1000} \X BOOLEAN}

InitEngine ==
  /\ \/ args \in AstronomyArgs
     \/ args \in OverlapArgs
     \/ args \in ClassifyArgs
     \/ args \in EclipseArgs
  /\ returned = None
  /\ params = None
  /\ startDate = 490000000
  /\ now = startDate
  /\ simHours = 0
  /\ isPlaying = FALSE
  /\ alertShown = FALSE
  /\ calls = <<>>
  /\ NoModel /\ NoSearch /\ NoHeap /\ NoPlay /\ NoLand

otherVars == <<appVars, modelVars, calls, searchVars, heapVars, playVars, landVars>>

\* computeAstronomy(julianDay, controls, rotationOffsetDeg).
CallComputeAstronomy ==
  /\ args.fn = "computeAstronomy"
  /\ IsNone(returned)
  /\ returned' = computeAstronomy(args.julianDay, args.controls, args.rotationOffsetDeg)
  /\ UNCHANGED <<args, otherVars>>

\* overlapFraction(sunRadiusDeg, moonRadiusDeg, separationDeg).
CallOverlapFraction ==
  /\ args.fn = "overlapFraction"
  /\ IsNone(returned)
  /\ returned' = [value |-> overlapFraction(args.sunRadiusDeg, args.moonRadiusDeg,
                                            args.separationDeg)]
  /\ UNCHANGED <<args, otherVars>>

\* classifyEclipse(bestSeparationDeg, sunRadiusDeg, moonRadiusDeg, depth,
\* axisHitsEarth).
CallClassifyEclipse ==
  /\ args.fn = "classifyEclipse"
  /\ IsNone(returned)
  /\ returned' = [value |-> classifyEclipse(args.bestSeparationDeg, args.sunRadiusDeg,
                                            args.moonRadiusDeg, args.depth,
                                            args.axisHitsEarth)]
  /\ UNCHANGED <<args, otherVars>>

evaluated(a) ==
  eclipseOf(a.sunAngularRadiusDeg, a.moonAngularRadiusDeg, a.moonParallaxDeg,
            a.bestSeparationDeg, a.hitsEarth)

\* depth, footprints and class of the discs as they stand.
CallEclipseOf ==
  /\ args.fn = "eclipseOf"
  /\ IsNone(returned)
  /\ returned' = evaluated(args)
  /\ UNCHANGED <<args, otherVars>>

\* The same discs, SweepStep closer (bestSeparationDeg is Math.max(0, ...)).
Approach ==
  /\ args.fn = "eclipseOf"
  /\ ~IsNone(returned)
  /\ args.bestSeparationDeg > 0
  /\ args' = [args EXCEPT !.bestSeparationDeg = Max(0, @ - SweepStep)]
  /\ returned' = evaluated(args')
  /\ UNCHANGED otherVars

NextEngine ==
  \/ CallComputeAstronomy
  \/ CallOverlapFraction
  \/ CallClassifyEclipse
  \/ CallEclipseOf
  \/ Approach

SpecEngine == InitEngine /\ [][NextEngine]_vars

\* C13: moonDistanceKm of every result of computeAstronomy is at least 363300
\* and at most 405500 km, whatever moonDistanceMode is, values below 0 and
\* above 1 included.
C13_MoonDistanceWithinOrbit ==
  (args.fn = "computeAstronomy" /\ ~IsNone(returned)) =>
     /\ MOON_PERIGEE_KM <= returned.moonDistanceKm
     /\ returned.moonDistanceKm <= MOON_APOGEE_KM

\* A mode of 3 has given the distance of the apogee.
C13_Witness ==
  /\ args.fn = "computeAstronomy"
  /\ ~IsNone(returned)
  /\ args.controls.moonDistanceMode = 3 * Micro
  /\ returned.moonDistanceKm = MOON_APOGEE_KM

OverlapCalled == args.fn = "overlapFraction" /\ ~IsNone(returned)

\* C14: for all radii r1, r2 >= 0, overlapFraction(r1, r2, d) is exactly 0
\* whenever d = r1 + r2, and exactly 1 whenever r2 >= r1 and d = 0.
C14_OverlapBoundary ==
  OverlapCalled =>
    /\ args.separationDeg = args.sunRadiusDeg + args.moonRadiusDeg
         => returned.value = 0
    /\ (args.moonRadiusDeg >= args.sunRadiusDeg /\ args.separationDeg = 0)
         => returned.value = Micro

\* C14 as amended: for all radii r1, r2 >= 0, overlapFraction(r1, r2, d) is
\* exactly 0 whenever d = r1 + r2, and exactly 1 whenever r2 >= r1, r2 > 0
\* and d = 0.
C14_OverlapBoundaryOfDiscs ==
  OverlapCalled =>
    /\ args.separationDeg = args.sunRadiusDeg + args.moonRadiusDeg
         => returned.value = 0
    /\ (args.moonRadiusDeg >= args.sunRadiusDeg /\ args.moonRadiusDeg > 0
        /\ args.separationDeg = 0)
         => returned.value = Micro

\* A Moon that is larger than the Sun and centred on it covers it wholly.
C14_Witness ==
  /\ OverlapCalled
  /\ args.sunRadiusDeg > 0
  /\ args.moonRadiusDeg > args.sunRadiusDeg
  /\ args.separationDeg = 0
  /\ returned.value = Micro

DiscsEvaluated == args.fn = "eclipseOf" /\ ~IsNone(returned)

LargerMoon == args.moonAngularRadiusDeg > args.sunAngularRadiusDeg

DiscsTouch == args.sunAngularRadiusDeg + args.moonAngularRadiusDeg

\* The classes in the order a larger Moon brings them as it closes in.
ClassRank(class) ==
  CASE class = ClassNone -> 0
    [] class = ClassPartial -> 1
    [] class = ClassTotal -> 2
    [] class = ClassAnnular -> 2

\* C15: with radii that stay the same, the Moon's larger than the Sun's, the
\* class is none where the discs touch, is total at separation 0 if the axis
\* meets the Earth, and as the separation shrinks it never goes from none
\* to total at once and never goes back to an earlier class.
C15_ClassesInOrder ==
  /\ []((DiscsEvaluated /\ LargerMoon /\ args.bestSeparationDeg = DiscsTouch)
          => returned.eclipseClass = ClassNone)
  /\ []((DiscsEvaluated /\ LargerMoon /\ args.bestSeparationDeg = 0 /\ args.hitsEarth)
          => returned.eclipseClass = ClassTotal)
  /\ [][(DiscsEvaluated /\ LargerMoon) =>
          /\ ClassRank(returned'.eclipseClass) >= ClassRank(returned.eclipseClass)
          /\ ~(returned.eclipseClass = ClassNone /\ returned'.eclipseClass = ClassTotal)]_vars

\* The end of a sweep under a larger Moon whose axis meets the Earth.
C15_Witness ==
  /\ DiscsEvaluated /\ LargerMoon
  /\ args.hitsEarth
  /\ args.bestSeparationDeg = 0
  /\ returned.eclipseClass = ClassTotal

\* C16: at best separation 0, with the Moon's angular radius greater than the
\* Sun's and the axis meeting the Earth, the depth is exactly 1 and the class
\* is the total solar eclipse.
C16_CentredLargerMoonIsTotal ==
  (DiscsEvaluated /\ LargerMoon /\ args.bestSeparationDeg = 0 /\ args.hitsEarth)
    => (returned.depth = Micro /\ returned.eclipseClass = ClassTotal)

\* The discs in the ratio 0.56 : 0.52, centred, the axis meeting the Earth.
C16_Witness ==
  /\ DiscsEvaluated
  /\ args.sunAngularRadiusDeg = 260 /\ args.moonAngularRadiusDeg = 280
  /\ args.bestSeparationDeg = 0 /\ args.hitsEarth
  /\ returned.depth = Micro

\* C17: whenever the best separation is at least sunRadius + moonRadius, the
\* depth is exactly 0, the class is no eclipse, and umbraRadiusDeg and
\* penumbraRadiusDeg are both 0, whether the axis meets the Earth or not.
C17_ApartIsNoEclipse ==
  (DiscsEvaluated /\ args.bestSeparationDeg >= DiscsTouch)
    => /\ returned.depth = 0
       /\ returned.eclipseClass = ClassNone
       /\ returned.umbraRadiusDeg = 0
       /\ returned.penumbraRadiusDeg = 0

\* The discs a degree further apart than touching, the axis meeting the Earth.
C17_Witness ==
  /\ DiscsEvaluated
  /\ args.bestSeparationDeg = DiscsTouch + 1000
  /\ args.hitsEarth
  /\ returned.depth = 0
  /\ returned.penumbraRadiusDeg = 0

ClassifyCalled == args.fn = "classifyEclipse" /\ ~IsNone(returned)

WithinRadiusDifference(a) ==
  a.bestSeparationDeg <= Abs(a.moonRadiusDeg - a.sunRadiusDeg)

\* The table of the classes, row by row; 0.0005 is 500 micro.
DecisionTable(a) ==
  IF a.depth <= 500 THEN ClassNone
  ELSE IF a.axisHitsEarth /\ WithinRadiusDifference(a)
          /\ a.moonRadiusDeg >= a.sunRadiusDeg THEN ClassTotal
  ELSE IF a.axisHitsEarth /\ WithinRadiusDifference(a)
          /\ a.moonRadiusDeg < a.sunRadiusDeg THEN ClassAnnular
  ELSE IF a.bestSeparationDeg < a.sunRadiusDeg + a.moonRadiusDeg THEN ClassPartial
  ELSE ClassNone

\* C20: classifyEclipse returns none when depth <= 0.0005; otherwise total
\* when the axis meets the Earth, the separation is at most
\* |moonRadius - sunRadius| and moonRadius >= sunRadius; otherwise annular
\* when the axis meets the Earth, the separation is at most
\* |moonRadius - sunRadius| and moonRadius < sunRadius; otherwise partial when
\* the separation is less than sunRadius + moonRadius; otherwise none.  The
\* result is one of these four classes.
C20_DecisionTable ==
  ClassifyCalled =>
    /\ returned.value = DecisionTable(args)
    /\ returned.value \in {ClassNone, ClassTotal, ClassAnnular, ClassPartial}

\* A smaller Moon well within the Sun, the axis meeting the Earth: annular.
C20_Witness ==
  /\ ClassifyCalled
  /\ args.depth > 500
  /\ args.axisHitsEarth
  /\ args.moonRadiusDeg < args.sunRadiusDeg
  /\ WithinRadiusDifference(args)
  /\ returned.value = ClassAnnular

-----------------------------------------------------------------------------
(* The ground track against the depth at its points.                        *)

\* The depth at an offset from the instant of a state: the state is
\* propagated by the offset from its own date and computeAstronomy is run on
\* the outcome as deriveModel runs it.
reevaluatedDepth(st, hour) ==
  With([at \in {deriveSimulationState(st, hour, st.date)} |->
    computeAstronomy(at.julianDay, at, normalize180(at.earthRotation - at.gmst)).depth])

\* The hours of the points of the track of the model of a state.
trackHoursOf(st) ==
  trackHoursFrom(st.julianDay, st, normalize180(st.earthRotation - st.gmst), 1)

\* The model as the render has left it, nothing else derived yet.
JustRendered == ~IsNone(model) /\ IsNone(backModel) /\ IsNone(directModel)

\* C18: whenever the depth of the model exceeds 0.001, the track of the
\* model is not empty, and every point of it is the point of a sample hour
\* at which the depth, evaluated anew from the state propagated to that
\* hour, exceeds 0.001.  (The model stays as it is after the render; it is
\* examined in the state that follows the render.)
C18_TrackPointsAreInEclipse ==
  (JustRendered /\ model.depth > 1000) =>
     /\ Len(model.track) > 0
     /\ \E hours \in {trackHoursOf(liveState)} :
          /\ Len(hours) = Len(model.track)
          /\ \A i \in 1..Len(hours) : reevaluatedDepth(liveState, hours[i]) > 1000

\* An eclipse whose track has points, yet not at all the 25 sample hours.
C18_Witness ==
  /\ JustRendered
  /\ model.depth > 1000
  /\ Len(model.track) > 0
  /\ Len(model.track) < Len(TrackHours)

-----------------------------------------------------------------------------
(* SpecPlayback: the animation of App.  While isPlaying holds, an effect    *)
(* keeps a frame callback scheduled; the callback adds to simHours what the *)
(* time since the callback before it (or since the effect began) amounts to *)
(* at the speed set.  perfNow and prev are in ms, simHours in mh.           *)

\* The time that passes is no longer than this many frames of 60 ms.
MaxFrames == 4

\* Some of SPEED_PRESETS.
SpeedPresets == {60, 3600, 86400}

\* The time from one frame to the next, in ms.
FrameMs == {60, 120}

\* speed read as simulated hours per second of real time.
advanceHoursPerSecond(current, elapsedMs, speedSet) == current + elapsedMs * speedSet

\* current + (elapsedMs / 3600000) * speed, in mh: elapsedMs * speed / 3600.
advance(current, elapsedMs, speedSet) == current + RoundDiv(elapsedMs * speedSet, 3600)

InitPlayback ==
  /\ params = HeapBase
  /\ startDate = 490000000
  /\ now = startDate
  /\ simHours = 0
  /\ isPlaying = FALSE
  /\ alertShown = FALSE
  /\ calls = <<>>
  /\ NoModel /\ NoSearch /\ NoHeap /\ NoPlay /\ NoEngine /\ NoLand

restVars ==
  <<params, startDate, alertShown, now, modelVars, calls, searchVars, heapVars, engineVars,
    landVars>>

\* onClick={() => setIsPlaying((current) => !current)}; the effect begins
\* anew when isPlaying has become true: let prev = performance.now().
PlayPause ==
  /\ isPlaying' = ~isPlaying
  /\ prev' = IF isPlaying' THEN perfNow ELSE prev
  /\ UNCHANGED <<simHours, speed, perfNow, restVars>>

\* setSpeed(preset); speed is a dependency of the effect, which begins anew
\* if it is running.
SetSpeed(preset) ==
  /\ preset # speed
  /\ speed' = preset
  /\ prev' = IF isPlaying THEN perfNow ELSE prev
  /\ UNCHANGED <<simHours, isPlaying, perfNow, restVars>>

\* Real time passes until the next frame.
Pass(ms) ==
  /\ perfNow + ms <= MaxFrames * 60
  /\ perfNow' = perfNow + ms
  /\ UNCHANGED <<simHours, isPlaying, speed, prev, restVars>>

\* tick(now): const elapsedMs = now - prev; prev = now; setSimHours(...).  No
\* callback is scheduled while isPlaying is false.
Tick ==
  /\ isPlaying
  /\ \E elapsedMs \in {perfNow - prev} :
       simHours' = advance(simHours, elapsedMs, speed)
  /\ prev' = perfNow
  /\ UNCHANGED <<isPlaying, speed, perfNow, restVars>>

NextPlayback ==
  \/ PlayPause
  \/ \E preset \in SpeedPresets : SetSpeed(preset)
  \/ \E ms \in FrameMs : Pass(ms)
  \/ Tick

SpecPlayback == InitPlayback /\ [][NextPlayback]_vars

\* C19: speed is simulated hours per second of real time: while playing, a
\* tick that covers realElapsedSeconds takes simHours to
\* simHours + realElapsedSeconds * speed (in mh and ms: simHours +
\* elapsedMs * speed); while paused nothing of the animation changes simHours.
C19_HoursPerRealSecond ==
  [][/\ Tick => simHours' = simHours + (perfNow - prev) * speed
     /\ ~isPlaying => simHours' = simHours]_vars

\* C19 as amended: speed is simulated seconds per second of real time: while
\* playing, a tick that covers realElapsedSeconds takes simHours to
\* simHours + realElapsedSeconds * speed / 3600 (in mh and ms: the change,
\* times 3600, is elapsedMs * speed); while paused nothing of the animation
\* changes simHours.
C19_SecondsPerRealSecond ==
  [][/\ Tick => (simHours' - simHours) * 3600 = (perfNow - prev) * speed
     /\ ~isPlaying => simHours' = simHours]_vars

\* At the speed of 3600 a tick has covered 120 ms and simHours stands at
\* 120 mh, an hour for a second.
C19_Witness ==
  /\ isPlaying
  /\ speed = 3600
  /\ perfNow = 120
  /\ prev = 120
  /\ simHours = 120

-----------------------------------------------------------------------------
(* The new moons of the search.                                             *)

\* moonToSun at an instant the search has reached, in mdeg.
moonToSunAt(t) == astronomyAt(params, t, startDate).moonToSun

\* C21: at every instant an outer iteration has reached after the estimate
\* and the three corrections, moonToSun is 0, to the thousandth of a degree
\* that the angles here are kept to.
C21_RefinedIsNewMoon ==
  /\ \A n \in DOMAIN examined : Abs(moonToSunAt(examined[n].newMoon)) <= 1
  /\ (~IsNone(search) /\ search.pc = "refine" /\ ~refining(search.j))
       => Abs(moonToSunAt(search.t)) <= 1

\* Three new moons have been reached, each a month after the one before.
C21_Witness ==
  /\ Len(examined) = 3
  /\ \A n \in DOMAIN examined : examined[n].refinements = 3
  /\ examined[3].newMoon > examined[2].newMoon + 700000
  /\ examined[2].newMoon > examined[1].newMoon + 700000

-----------------------------------------------------------------------------
(* The axis of the shadow and the Earth, from the angles of the result.     *)

AstronomyCalled == args.fn = "computeAstronomy" /\ ~IsNone(returned)

\* The distance of the centre of the Earth from the line through the Moon
\* along the Sun's direction, in km.
axisOffsetKm(a) == Mul(a.moonDistanceKm, Sin(Min(a.separationDeg, 180000 - a.separationDeg)))

\* The distance on the ground from the sub-solar point to the shadow's
\* centre, in km.
centreFromSubSolarKm(a) ==
  greatCircleDistanceKm(a.centralLat, a.centralLon, a.subSolarLat, a.subSolarLon) \div 1000

\* A quarter of the circumference of the Earth, in km.
QuarterTurnKm == Mul(EARTH_RADIUS_KM, ToRad(90000))

\* The distances on the ground agree to this many km, the offset of the axis
\* to this many: what the six decimals of a cosine amount to.
GroundTolerance == 300

AxisTolerance == 50

\* C22: hitsEarth is true exactly when the line from the Moon along the
\* anti-solar direction meets the sphere at a positive parameter (the Moon
\* on the Sun's side, the line no farther than 6371 km from the centre), and
\* the centre is then the nearer of the intersections, at the angle from the
\* sub-solar point whose sine is offset / 6371; otherwise hitsEarth is false
\* and the centre is the surface point nearest the axis, a quarter turn from
\* the sub-solar point (on the axis itself if the axis passes through the
\* centre).  A latitude and a longitude are produced either way.
C22_AxisOnEarth ==
  AstronomyCalled =>
    /\ returned.axisHitsEarth =>
         /\ returned.separationDeg < 90000
         /\ axisOffsetKm(returned) <= EARTH_RADIUS_KM + AxisTolerance
         /\ Abs(centreFromSubSolarKm(returned)
                - Mul(EARTH_RADIUS_KM,
                      ToRad(Asin(Min(Micro, Div(axisOffsetKm(returned), EARTH_RADIUS_KM))))))
              <= GroundTolerance
    /\ (returned.separationDeg < 90000
        /\ axisOffsetKm(returned) <= EARTH_RADIUS_KM - AxisTolerance)
         => returned.axisHitsEarth
    /\ ~returned.axisHitsEarth =>
         \/ Abs(centreFromSubSolarKm(returned) - QuarterTurnKm) <= GroundTolerance
         \/ axisOffsetKm(returned) = 0 /\ centreFromSubSolarKm(returned) = 0
    /\ -90000 <= returned.centralLat /\ returned.centralLat <= 90000
    /\ -180000 <= returned.centralLon /\ returned.centralLon <= 180000

\* The axis meets the Earth a good way from the sub-solar point.
C22_Witness ==
  /\ AstronomyCalled
  /\ returned.axisHitsEarth
  /\ axisOffsetKm(returned) > 3000
  /\ centreFromSubSolarKm(returned) > 3000

\* The axis misses the Earth: on the Sun's side, and behind the Earth.
C22_WitnessOfMiss ==
  /\ AstronomyCalled
  /\ ~returned.axisHitsEarth
  /\ centreFromSubSolarKm(returned) > 9000

-----------------------------------------------------------------------------
(* The land features: LAND_STORE, the one fetch that fills it, and the      *)
(* drawing effect of App that reads it.                                     *)

\* The invalidations of the drawing a behaviour has, other than the one of
\* the land data.
MaxDraws == 4

\* The views of VIEWS: the first draws the continents, the others do not.
ViewIds == {"earth", "eclipticPole"}

\* What the land data of the server hold.
LandData == {<<"land1">>, <<"land1", "land2">>}

\* How the promise of fetch(...).then(...).then(...) can settle: with data
\* that hold an array of features, with data that hold none, with a response
\* that is not ok, with a rejected fetch, with a body that is not JSON.
FetchOutcomes ==
  [kind : {"features"}, features : LandData]
    \cup [kind : {"noFeatures", "httpError", "networkError", "badJson"}, features : {<<>>}]

\* Whether a read in this status starts the fetch again.
startsFetchUnlessReady(status) == status # "ready"

\* if (LAND_STORE.status === 'idle')
startsFetch(status) == status = "idle"

\* A failed load forgotten: the store as it was before the first read.
settleAndForget(landStore, outcome) ==
  IF outcome.kind \in {"features", "noFeatures"}
    THEN [status |-> "ready", features |-> outcome.features]
    ELSE [status |-> "idle", features |-> <<>>]

\* The second .then and the .catch of the fetch: what becomes of LAND_STORE.
settle(landStore, outcome) ==
  IF outcome.kind \in {"features", "noFeatures"}
    THEN [status |-> "ready", features |-> outcome.features]
    ELSE [status |-> "error", features |-> <<>>]

\* A listener that leaves the version as it is.
onLandDataReadyKeep(value) == value

\* const onLandDataReady = () => setLandDataVersion((value) => value + 1)
onLandDataReady(value) == value + 1

InitLand ==
  /\ params = HeapBase
  /\ startDate = 490000000
  /\ now = startDate
  /\ simHours = 0
  /\ isPlaying = FALSE
  /\ alertShown = FALSE
  /\ calls = <<>>
  /\ NoModel /\ NoSearch /\ NoHeap /\ NoPlay /\ NoEngine /\ NoLand

asideVars == <<appVars, modelVars, calls, searchVars, heapVars, playVars, engineVars>>

\* getLandFeatures(): the first read starts the fetch; every read returns
\* LAND_STORE.features as they are.
GetLandFeatures ==
  /\ IF startsFetch(LAND_STORE.status)
       THEN /\ LAND_STORE' = [LAND_STORE EXCEPT !.status = "loading"]
            /\ request' = "pending"
            /\ fetches' = fetches + 1
       ELSE UNCHANGED <<LAND_STORE, request, fetches>>
  /\ returns' = Append(returns, [status |-> LAND_STORE'.status,
                                 features |-> LAND_STORE'.features])

\* The drawing effect of App: activeView.draw(...); the Earth view draws the
\* continents, on the map or on the globe, and reads the land features once.
Draw ==
  /\ drawDue
  /\ drawDue' = FALSE
  /\ draws' = draws + 1
  /\ IF activeViewId = "earth"
       THEN GetLandFeatures
       ELSE UNCHANGED <<LAND_STORE, request, fetches, returns>>
  /\ UNCHANGED <<events, landDataVersion, activeViewId, asideVars>>

\* A tab of the views is pressed: setActiveViewId(view.id).
SelectView(id) ==
  /\ draws < MaxDraws
  /\ id # activeViewId
  /\ activeViewId' = id
  /\ drawDue' = TRUE
  /\ UNCHANGED <<LAND_STORE, request, fetches, events, landDataVersion, draws,
                 returns, asideVars>>

\* The model or the viewport has changed: the drawing effect is due.
Invalidate ==
  /\ draws < MaxDraws
  /\ ~drawDue
  /\ drawDue' = TRUE
  /\ UNCHANGED <<LAND_STORE, request, fetches, events, landDataVersion, draws,
                 activeViewId, returns, asideVars>>

\* The promise settles.  With data: the features are kept, the status is
\* 'ready', and 'land-data-ready' is dispatched, which the listener of App
\* answers by a new landDataVersion, a dependency of the drawing effect.
\* Otherwise the .catch: the status is 'error' and nothing is dispatched.
FetchSettles(outcome) ==
  /\ request = "pending"
  /\ request' = "settled"
  /\ LAND_STORE' = settle(LAND_STORE, outcome)
  /\ IF outcome.kind \in {"features", "noFeatures"}
       THEN /\ events' = events + 1
            /\ landDataVersion' = onLandDataReady(landDataVersion)
            /\ drawDue' = TRUE
       ELSE UNCHANGED <<events, landDataVersion, drawDue>>
  /\ UNCHANGED <<fetches, draws, activeViewId, returns, asideVars>>

Settles == \E outcome \in FetchOutcomes : FetchSettles(outcome)

NextLand ==
  \/ Draw
  \/ \E id \in ViewIds : SelectView(id)
  \/ Invalidate
  \/ Settles

SpecLand == InitLand /\ [][NextLand]_vars

\* The browser settles every request, and React runs every effect that is due.
SpecLandFair == SpecLand /\ WF_vars(Settles) /\ WF_vars(Draw)

\* The status of LAND_STORE changes from one value to another.
StatusGoes(from, to) == LAND_STORE.status = from /\ LAND_STORE'.status = to

\* C23: the status of the land features is always one of idle, loading and
\* ready, and it only ever goes from idle to loading and from loading to
\* ready.
C23_ThreeStatuses ==
  [][/\ LAND_STORE'.status \in {"idle", "loading", "ready"}
     /\ LAND_STORE'.status # LAND_STORE.status
          => StatusGoes("idle", "loading") \/ StatusGoes("loading", "ready")]_vars

\* C23, with the failed load: the status is always one of idle, loading,
\* ready and error; it only ever goes from idle to loading, from loading to
\* ready and from loading to error, and a status of ready or error stays.
C23_FourStatuses ==
  [][/\ LAND_STORE'.status \in {"idle", "loading", "ready", "error"}
     /\ LAND_STORE'.status # LAND_STORE.status
          => \/ StatusGoes("idle", "loading")
             \/ StatusGoes("loading", "ready")
             \/ StatusGoes("loading", "error")]_vars

\* The load has failed, and the features have been read again since.
C23_Witness ==
  /\ LAND_STORE.status = "error"
  /\ fetches = 1
  /\ Len(returns) >= 2

\* C24: a load that has started leads to a 'land-data-ready' event that App
\* answers by a new landDataVersion.
C24_LoadLeadsToNotification ==
  (LAND_STORE.status = "loading") ~> (events = 1 /\ landDataVersion = 1)

\* C24, with the failed load: the step that makes the status ready
\* dispatches one 'land-data-ready', which adds 1 to landDataVersion and
\* makes the drawing effect due; there is one event when the status is ready
\* and none otherwise; a load that has started leads to the status ready,
\* with its event, or to the status error; and the event leads to a drawing
\* that is not due any more.
C24_ReadyLoadNotifiesOnce ==
  /\ [][StatusGoes("loading", "ready")
          => /\ events' = events + 1
             /\ landDataVersion' = landDataVersion + 1
             /\ drawDue']_vars
  /\ [](/\ events = (IF LAND_STORE.status = "ready" THEN 1 ELSE 0)
        /\ landDataVersion = events)
  /\ (LAND_STORE.status = "loading")
       ~> (LAND_STORE.status = "error" \/ (events = 1 /\ landDataVersion = 1))
  /\ (events = 1) ~> (events = 1 /\ ~drawDue /\ draws >= 2)

\* The load has come with features, the event has been answered, and the
\* Earth has been drawn again, with the features.
C24_Witness ==
  /\ LAND_STORE.status = "ready"
  /\ events = 1 /\ landDataVersion = 1
  /\ ~drawDue
  /\ Len(returns) >= 2
  /\ returns[Len(returns)].features # <<>>
  /\ returns[Len(returns)].features = LAND_STORE.features

\* C25: fetch is called at most once, by the first read, which finds the
\* status idle; no later read calls it, while loading, after ready or after
\* error; and every read that does not find the load ready returns the
\* empty list.
C25_OneFetch ==
  /\ fetches = (IF returns = <<>> THEN 0 ELSE 1)
  /\ (request = "none") = (LAND_STORE.status = "idle")
  /\ (returns = <<>>) = (LAND_STORE.status = "idle")
  /\ \A n \in DOMAIN returns :
       /\ n = 1 => returns[n].status = "loading"
       /\ returns[n].status # "ready" => returns[n].features = <<>>

\* The features have been read while loading and after the load failed.
C25_Witness ==
  /\ fetches = 1
  /\ Len(returns) >= 3
  /\ returns[2].status = "loading"
  /\ returns[Len(returns)].status = "error"

\* The features have been read after the load came, too.
C25_WitnessOfReady ==
  /\ fetches = 1
  /\ Len(returns) >= 3
  /\ returns[2].status = "ready"
  /\ returns[3].features # <<>>

-----------------------------------------------------------------------------
(* The button of the next eclipse, and what the search returns.             *)

\* The step of the handler, after findNextLocalEclipse has returned.
Handles ==
  /\ ~IsNone(search) /\ search.pc = "returned"
  /\ ~IsNone(search') /\ search'.pc = "handled"

\* C26: when the search reports not-found, the handler leaves simHours,
\* isPlaying, params and startDate as they are and shows the alert; when it
\* reports an instant, simHours becomes that instant, isPlaying becomes
\* false, params and startDate stay, and no alert is shown.
C26_HandlerWrites ==
  [][Handles =>
       /\ UNCHANGED <<params, startDate>>
       /\ IF nextT = JsNull
            THEN UNCHANGED <<simHours, isPlaying>> /\ alertShown'
            ELSE /\ simHours' = nextT.value
                 /\ ~isPlaying'
                 /\ alertShown' = alertShown]_vars

\* Not found: the alert is up and the animation goes on from where it was.
C26_Witness ==
  /\ Handled
  /\ nextT = JsNull
  /\ alertShown
  /\ isPlaying
  /\ simHours = currentSimHours

\* Found: the clock is at the instant returned, a month on, and paused.
C26_WitnessOfFound ==
  /\ Handled
  /\ nextT # JsNull
  /\ simHours = nextT.value
  /\ simHours > currentSimHours + 600000
  /\ ~isPlaying /\ ~alertShown

\* C27: at every instant returned, the engine evaluated at that instant
\* gives depth > 0 and penumbraRadiusDeg > 0.
C27_EclipseAtReturned ==
  (Returned /\ nextT # JsNull) =>
    /\ astronomyAt(params, nextT.value, startDate).depth > 0
    /\ astronomyAt(params, nextT.value, startDate).penumbraRadiusDeg > 0

\* C28: every instant returned is later than currentSimHours, and so is
\* every new moon the search examines and every instant it scans.
C28_LaterThanCurrent ==
  /\ (Returned /\ nextT # JsNull) => nextT.value > currentSimHours
  /\ \A n \in DOMAIN examined : examined[n].newMoon > currentSimHours
  /\ \A k \in DOMAIN scanned : scanned[k].scanT > currentSimHours

\* The instant returned is less than three days after the call, in a window
\* around the first new moon after it.
C28_Witness ==
  /\ Returned
  /\ nextT # JsNull
  /\ Len(examined) = 1
  /\ nextT.value > currentSimHours
  /\ nextT.value < currentSimHours + 72000

-----------------------------------------------------------------------------
(* The axis of the shadow, the umbra and the central classes.               *)

\* An umbra only where the axis meets the Earth, and a central eclipse only
\* there and with depth above 0.0005.
AxisAndUmbra(hitsEarth, result) ==
  /\ ~hitsEarth => result.umbraRadiusDeg = 0
  /\ result.eclipseClass \in {ClassTotal, ClassAnnular}
       => (hitsEarth /\ result.depth > 500)

\* C29: in every result of the engine, axisHitsEarth false implies
\* umbraRadiusDeg 0, and a class of total or annular implies axisHitsEarth
\* true and depth > 0.0005.
C29_UmbraNeedsAxis ==
  /\ AstronomyCalled => AxisAndUmbra(returned.axisHitsEarth, returned)
  /\ DiscsEvaluated => AxisAndUmbra(args.hitsEarth, returned)

\* A partial eclipse by computeAstronomy, the axis passing the Earth by: a
\* penumbra on the ground and no umbra.
C29_Witness ==
  /\ AstronomyCalled
  /\ ~returned.axisHitsEarth
  /\ returned.depth > 500
  /\ returned.penumbraRadiusDeg > 0
  /\ returned.umbraRadiusDeg = 0
  /\ returned.eclipseClass = ClassPartial

\* A total eclipse by computeAstronomy, with its umbra.
C29_WitnessOfTotal ==
  /\ AstronomyCalled
  /\ returned.axisHitsEarth
  /\ returned.eclipseClass = ClassTotal
  /\ returned.umbraRadiusDeg > 0

-----------------------------------------------------------------------------
(* The angles of the state in the model made of it.                         *)

RederivedAngles ==
  {"sunEclipticLon", "ascendingNodeLon", "descendingNodeLon", "moonEclipticLon",
   "moonAnomaly", "moonNodePhase"}

KeepsAngles(m, st) == \A angle \in RederivedAngles : m[angle] = st[angle]

\* C30: the model deriveModel makes of a state of deriveSimulationState has
\* the sunEclipticLon, ascendingNodeLon, descendingNodeLon, moonEclipticLon,
\* moonAnomaly and moonNodePhase of that state.
C30_ModelKeepsAngles ==
  /\ ~IsNone(model) => KeepsAngles(model, liveState)
  /\ ~IsNone(backModel) => KeepsAngles(backModel, backState)

=============================================================================
